---- MODULE Spec2Model ----
(***************************************************************************)
(* Hydra Router: the peer registry (ClientRegistry), the dispatcher        *)
(* (MessageRouter) and the receive / prune loops of the runtime            *)
(* (HydraRouter), modelled from src/hydra_router/router.py, together with  *)
(* the peer library (MQClient, src/hydra_router/mq_client.py) as far as    *)
(* the end-to-end request/response scenario needs it.                      *)
(*                                                                         *)
(* A Python dict is a TLA+ function whose domain is the set of keys that   *)
(* are present; dict.get(k) is Get(d, k).  Python's None is the string     *)
(* None.  time.time() is the variable now, which only moves forward.       *)
(***************************************************************************)
EXTENDS Bags, FiniteSets, Integers, Sequences, TLC

\* ------------------------------------------------------------------------
\* Bounds of the model
\* ------------------------------------------------------------------------
MaxTime == 2          \* the clock runs over 0..MaxTime
ClientTimeout == 1    \* client_timeout (T_dead) the router is constructed with
MaxHeartbeats == 2    \* heartbeats a connected peer sends in the end-to-end scenario

\* Transport identities of the peers (the ZeroMQ IDENTITY of each DEALER)
IDs == {"p1", "p2", "p3"}

\* ------------------------------------------------------------------------
\* DRouter constants
\* ------------------------------------------------------------------------
HYDRA_CLIENT == "HydraClient"
HYDRA_SERVER == "HydraServer"
HYDRA_ROUTER == "HydraRouter"
SIMPLE_CLIENT == "SimpleClient"
SIMPLE_SERVER == "SimpleServer"
VALID_CLIENT_TYPES ==
    {HYDRA_CLIENT, HYDRA_SERVER, HYDRA_ROUTER, SIMPLE_CLIENT, SIMPLE_SERVER}

HEARTBEAT == "heartbeat"
ERROR == "error"
SQUARE_REQUEST == "square_request"
SQUARE_RESPONSE == "square_response"
CLIENT_REGISTRY_REQUEST == "client_registry_request"
CLIENT_REGISTRY_RESPONSE == "client_registry_response"
NO_SERVER_CONNECTED == "no_server_connected"

None == "None"

\* dict.get(key): the value, or None when the key is not present
Get(d, key) == IF key \in DOMAIN d THEN d[key] ELSE None

\* the empty dict
EmptyDict == [k \in {} |-> None]

\* a local of the receive loop that holds no value
Nothing == EmptyDict

\* ------------------------------------------------------------------------
\* State
\* ------------------------------------------------------------------------
VARIABLES
    clients,     \* ClientRegistry.clients: client_id -> (client_type, last_heartbeat)
    server_id,   \* ClientRegistry.server_id: a client_id or None
    now,         \* the clock read by time.time()
    inbound,     \* the (identity, message) of the receive loop's current
                 \* iteration; Nothing while the loop awaits recv_multipart
    dispatched,  \* the registry as route_message found it for that message
    sent,        \* bag of the send_multipart calls made for that message
    pruning,     \* the registry the prune loop's current iteration found and
                 \* the removed_clients its prune returned; Nothing while the
                 \* loop sleeps
    wire_in,     \* frames the peers have sent that the ROUTER socket has not
                 \* yet delivered to recv_multipart, oldest first
    wire_out,    \* per identity: frames the router has sent that the peer's
                 \* DEALER socket has not yet delivered, oldest first
    peer,        \* per identity: the MQClient of that peer and what its
                 \* application has seen
    router,      \* HydraRouter: running, shutdown_event, socket, context and
                 \* the two tasks, with counts of the calls made on them
    call         \* a direct call of a conversion or of the validator: its
                 \* arguments and what it returned; Nothing when there is none

routerVars ==
    <<clients, server_id, now, inbound, dispatched, sent, pruning, router, call>>
peerVars == <<wire_in, wire_out, peer>>
vars ==
    <<clients, server_id, now, inbound, dispatched, sent, pruning,
      wire_in, wire_out, peer, router, call>>

\* ------------------------------------------------------------------------
\* ClientRegistry: each operation maps a registry value
\* [clients, server_id] to the registry value it leaves behind
\* ------------------------------------------------------------------------
Registry(c, s) == [clients |-> c, server_id |-> s]

\* register_client that gives the slot to a new server only, and releases it
\* when the identity in the slot registers again
register_client_once(reg, client_id, client_type, t) ==
    [clients |-> (client_id :> [client_type |-> client_type, last_heartbeat |-> t])
                     @@ reg.clients,
     server_id |-> IF client_type = HYDRA_SERVER /\ client_id \notin DOMAIN reg.clients
                   THEN client_id
                   ELSE IF client_id = reg.server_id THEN None ELSE reg.server_id]

register_client(reg, client_id, client_type, t) ==
    [clients |-> (client_id :> [client_type |-> client_type, last_heartbeat |-> t])
                     @@ reg.clients,
     server_id |-> IF client_type = HYDRA_SERVER THEN client_id ELSE reg.server_id]

\* update_heartbeat that makes an entry for a client it does not find
update_heartbeat_recreates(reg, client_id, t) ==
    IF client_id \in DOMAIN reg.clients
    THEN [reg EXCEPT !.clients[client_id].last_heartbeat = t]
    ELSE [reg EXCEPT !.clients =
              (client_id :> [client_type |-> HYDRA_CLIENT, last_heartbeat |-> t]) @@ @]

\* update_heartbeat with the write-back lost
update_heartbeat_lost(reg, client_id, t) == reg

update_heartbeat(reg, client_id, t) ==
    IF client_id \in DOMAIN reg.clients
    THEN [reg EXCEPT !.clients[client_id].last_heartbeat = t]
    ELSE reg

remove_client(reg, client_id) ==
    IF client_id \in DOMAIN reg.clients
    THEN [clients |-> [id \in DOMAIN reg.clients \ {client_id} |-> reg.clients[id]],
          server_id |-> IF client_id = reg.server_id THEN None ELSE reg.server_id]
    ELSE reg

\* the scan of prune_inactive_clients taking an entry exactly timeout old
Inactive_at_timeout(reg, timeout, t) ==
    {id \in DOMAIN reg.clients : t - reg.clients[id].last_heartbeat >= timeout}

\* the scan of prune_inactive_clients allowing twice the timeout
Inactive_after_two_timeouts(reg, timeout, t) ==
    {id \in DOMAIN reg.clients : t - reg.clients[id].last_heartbeat > 2 * timeout}

Inactive(reg, timeout, t) ==
    {id \in DOMAIN reg.clients : t - reg.clients[id].last_heartbeat > timeout}

\* prune_inactive_clients that leaves the server slot as it was
prune_inactive_clients_keeps_slot(reg, timeout, t) ==
    [clients |-> [id \in DOMAIN reg.clients \ Inactive(reg, timeout, t)
                      |-> reg.clients[id]],
     server_id |-> reg.server_id]

prune_inactive_clients(reg, timeout, t) ==
    [clients |-> [id \in DOMAIN reg.clients \ Inactive(reg, timeout, t)
                      |-> reg.clients[id]],
     server_id |-> IF reg.server_id \in Inactive(reg, timeout, t)
                   THEN None ELSE reg.server_id]

\* get_registry_data reporting is_server from the recorded type instead of
\* from the server slot
get_registry_data_by_type(reg) ==
    [id \in DOMAIN reg.clients |->
        [client_type |-> reg.clients[id].client_type,
         last_heartbeat |-> reg.clients[id].last_heartbeat,
         is_server |-> (reg.clients[id].client_type \in {HYDRA_SERVER, SIMPLE_SERVER})]]

get_registry_data(reg) ==
    [id \in DOMAIN reg.clients |->
        [client_type |-> reg.clients[id].client_type,
         last_heartbeat |-> reg.clients[id].last_heartbeat,
         is_server |-> (id = reg.server_id)]]

has_server(reg) == reg.server_id # None /\ reg.server_id \in DOMAIN reg.clients

\* ------------------------------------------------------------------------
\* MessageRouter: each routing operation maps the registry it finds to
\* [reg |-> the registry it leaves, sent |-> the bag of its sends]
\* ------------------------------------------------------------------------

\* one call socket.send_multipart([target.encode(), jsonapi.dumps(message)])
Send(target, message) == [to |-> target, msg |-> message]

Routed(reg, out) == [reg |-> reg, sent |-> out]

\* _forward_to_server addressing every identity recorded with a server type
\* instead of the server slot
_forward_to_server_every_server(reg, message) ==
    IF ~has_server(reg)
    THEN EmptyBag
    ELSE SetToBag({Send(id, message) :
                      id \in {x \in DOMAIN reg.clients :
                                 reg.clients[x].client_type
                                     \in {HYDRA_SERVER, SIMPLE_SERVER}}})

_forward_to_server(reg, message) ==
    IF ~has_server(reg)
    THEN EmptyBag                  \* raises ServerNotAvailableError
    ELSE IF reg.server_id # None
         THEN SetToBag({Send(reg.server_id, message)})
         ELSE EmptyBag

\* the broadcast filter without the skip of the sender
BroadcastTargets_keeps_sender(reg, exclude_sender) ==
    {id \in DOMAIN get_registry_data(reg) :
        get_registry_data(reg)[id].client_type \notin {HYDRA_SERVER, SIMPLE_SERVER}}

\* the broadcast filter skipping HydraServer entries only
BroadcastTargets_skips_hydra_only(reg, exclude_sender) ==
    {id \in DOMAIN get_registry_data(reg) :
        /\ id # exclude_sender
        /\ get_registry_data(reg)[id].client_type # HYDRA_SERVER}

BroadcastTargets(reg, exclude_sender) ==
    {id \in DOMAIN get_registry_data(reg) :
        /\ id # exclude_sender
        /\ get_registry_data(reg)[id].client_type \notin {HYDRA_SERVER, SIMPLE_SERVER}}

\* _broadcast_to_clients that sends the fields of the schema only
_broadcast_to_clients_known_keys(reg, message, exclude_sender) ==
    SetToBag({Send(id, [k \in DOMAIN message \cap
                              {"sender", "elem", "data", "client_id",
                               "timestamp", "request_id"} |-> message[k]]) :
                 id \in BroadcastTargets(reg, exclude_sender)})

_broadcast_to_clients(reg, message, exclude_sender) ==
    SetToBag({Send(id, message) : id \in BroadcastTargets(reg, exclude_sender)})

_handle_client_registry_request(reg, sender_id, message, t) ==
    SetToBag({Send(sender_id,
                   [sender |-> HYDRA_ROUTER,
                    elem |-> CLIENT_REGISTRY_RESPONSE,
                    data |-> get_registry_data(reg),
                    client_id |-> HYDRA_ROUTER,
                    timestamp |-> t,
                    request_id |-> Get(message, "request_id")])})

\* _send_no_server_error that does not copy the request's request_id
_send_no_server_error_drops_request_id(sender_id, message, t) ==
    SetToBag({Send(sender_id,
                   [sender |-> HYDRA_ROUTER,
                    elem |-> ERROR,
                    data |-> [error |-> NO_SERVER_CONNECTED,
                              message |-> "No server connected to handle client request",
                              original_request |-> Get(message, "elem")],
                    client_id |-> HYDRA_ROUTER,
                    timestamp |-> t,
                    request_id |-> None])})

_send_no_server_error(sender_id, message, t) ==
    SetToBag({Send(sender_id,
                   [sender |-> HYDRA_ROUTER,
                    elem |-> ERROR,
                    data |-> [error |-> NO_SERVER_CONNECTED,
                              message |-> "No server connected to handle client request",
                              original_request |-> Get(message, "elem")],
                    client_id |-> HYDRA_ROUTER,
                    timestamp |-> t,
                    request_id |-> Get(message, "request_id")])})

\* _route_client_message with the prune task running between its has_server
\* test and _forward_to_server
_route_client_message_pruned_between(reg, sender_id, message, t) ==
    LET pruned == prune_inactive_clients(reg, ClientTimeout, t)
    IN  IF Get(message, "elem") = CLIENT_REGISTRY_REQUEST
        THEN Routed(reg, _handle_client_registry_request(reg, sender_id, message, t))
        ELSE IF Get(message, "elem") = HEARTBEAT
        THEN Routed(update_heartbeat(reg, sender_id, t), EmptyBag)
        ELSE IF has_server(reg)
        THEN Routed(pruned, _forward_to_server(pruned, message))
        ELSE Routed(reg, _send_no_server_error(sender_id, message, t))

_route_client_message(reg, sender_id, message, t) ==
    IF Get(message, "elem") = CLIENT_REGISTRY_REQUEST
    THEN Routed(reg, _handle_client_registry_request(reg, sender_id, message, t))
    ELSE IF Get(message, "elem") = HEARTBEAT
    THEN Routed(update_heartbeat(reg, sender_id, t), EmptyBag)
    ELSE IF has_server(reg)
    THEN Routed(reg, _forward_to_server(reg, message))
    ELSE Routed(reg, _send_no_server_error(sender_id, message, t))

_route_server_message(reg, sender_id, message, t) ==
    IF Get(message, "elem") = HEARTBEAT
    THEN Routed(update_heartbeat(reg, sender_id, t), EmptyBag)
    ELSE Routed(reg, _broadcast_to_clients(reg, message, sender_id))

\* route_message going by the type the registry holds for the sender
route_message_by_recorded_type(reg, sender_id, message, t) ==
    LET sender_type == IF sender_id \in DOMAIN reg.clients
                       THEN reg.clients[sender_id].client_type
                       ELSE Get(message, "sender")
    IN  IF sender_type \in {HYDRA_CLIENT, SIMPLE_CLIENT}
        THEN _route_client_message(reg, sender_id, message, t)
        ELSE IF sender_type \in {HYDRA_SERVER, SIMPLE_SERVER}
        THEN _route_server_message(reg, sender_id, message, t)
        ELSE Routed(reg, EmptyBag)

route_message(reg, sender_id, message, t) ==
    IF Get(message, "sender") \in {HYDRA_CLIENT, SIMPLE_CLIENT}
    THEN _route_client_message(reg, sender_id, message, t)
    ELSE IF Get(message, "sender") \in {HYDRA_SERVER, SIMPLE_SERVER}
    THEN _route_server_message(reg, sender_id, message, t)
    ELSE Routed(reg, EmptyBag)     \* "Unknown sender type for routing"

\* ------------------------------------------------------------------------
\* HydraRouter: start, shutdown and cleanup
\* ------------------------------------------------------------------------
\* calls of start and of shutdown the model follows
MaxStarts == 3
MaxShutdowns == 3

\* HydraRouter.__init__.  socket and context are None or open (cleanup sets
\* them back to None); a task is None, running or done.  sockets, binds,
\* closes, terms, spawned and cancels count the sockets created, the bind,
\* close and term calls, the tasks created and the cancel calls; shutting
\* is where a shutdown call that has not returned stands: awaiting the
\* receive task, awaiting the prune task, or "" when there is none.
Constructed ==
    [running |-> FALSE, shutdown_event |-> FALSE,
     socket |-> None, context |-> None,
     request_handler_task |-> None, client_pruner_task |-> None,
     sockets |-> 0, binds |-> 0, closes |-> 0, terms |-> 0,
     spawned |-> 0, cancels |-> 0,
     shutting |-> "", raised |-> FALSE, starts |-> 0, shutdowns |-> 0]

cleanup(r) ==
    [r EXCEPT !.closes = IF r.socket # None THEN @ + 1 ELSE @,
              !.socket = None,
              !.terms = IF r.context # None THEN @ + 1 ELSE @,
              !.context = None]

\* start without the test of running
start_again(r, bind_ok) ==
    LET made == [r EXCEPT !.context = "open", !.socket = "open",
                          !.sockets = @ + 1, !.binds = @ + 1]
    IN  IF bind_ok
        THEN [made EXCEPT !.request_handler_task = "running",
                          !.client_pruner_task = "running",
                          !.spawned = @ + 2,
                          !.running = TRUE, !.raised = FALSE]
        ELSE [cleanup(made) EXCEPT !.raised = TRUE]

\* start: nothing on a running router; else the context and the socket
\* are made and the socket is bound; if that raises, cleanup and raise
\* ConnectionError; if not, the two tasks are created and running is set
start(r, bind_ok) ==
    IF r.running
    THEN r
    ELSE LET made == [r EXCEPT !.context = "open", !.socket = "open",
                               !.sockets = @ + 1, !.binds = @ + 1]
         IN  IF bind_ok
             THEN [made EXCEPT !.request_handler_task = "running",
                               !.client_pruner_task = "running",
                               !.spawned = @ + 2,
                               !.running = TRUE, !.raised = FALSE]
             ELSE [cleanup(made) EXCEPT !.raised = TRUE]

\* shutdown without the test of running
shutdown_again(r) ==
    [r EXCEPT !.running = FALSE, !.shutdown_event = TRUE,
              !.cancels = @ + 1, !.shutting = "receive"]

\* shutdown up to its first await: nothing on a router that is not running;
\* else running is cleared, the event set and the receive task cancelled
shutdown(r) ==
    IF ~r.running
    THEN r
    ELSE [r EXCEPT !.running = FALSE, !.shutdown_event = TRUE,
                   !.cancels = @ + 1, !.shutting = "receive"]

\* The router as the receive loop and the prune loop find it: started
Started == start(Constructed, TRUE)

\* A call of start; no call is made while a shutdown has not returned
start_call ==
    /\ router.shutting = ""
    /\ router.starts < MaxStarts
    /\ \E bind_ok \in BOOLEAN :
          router' = [start(router, bind_ok) EXCEPT !.starts = @ + 1]
    /\ UNCHANGED <<clients, server_id, now, inbound, dispatched, sent, pruning>>
    /\ UNCHANGED <<peerVars, call>>

\* A call of shutdown, up to its first await
shutdown_call ==
    /\ router.shutdowns < MaxShutdowns
    /\ router' = [shutdown(router) EXCEPT !.shutdowns = @ + 1]
    /\ UNCHANGED <<clients, server_id, now, inbound, dispatched, sent, pruning>>
    /\ UNCHANGED <<peerVars, call>>

\* shutdown, the receive task has ended with its CancelledError: the prune
\* task is cancelled next
shutdown_receive_cancelled ==
    /\ router.shutting = "receive"
    /\ router' = [router EXCEPT !.request_handler_task = "done",
                                !.cancels = @ + 1, !.shutting = "prune"]
    /\ inbound' = Nothing
    /\ dispatched' = Nothing
    /\ sent' = EmptyBag
    /\ UNCHANGED <<clients, server_id, now, pruning>>
    /\ UNCHANGED <<peerVars, call>>

\* shutdown, the prune task has ended too: cleanup, and shutdown returns
shutdown_prune_cancelled ==
    /\ router.shutting = "prune"
    /\ router' = cleanup([router EXCEPT !.client_pruner_task = "done",
                                        !.shutting = ""])
    /\ pruning' = Nothing
    /\ UNCHANGED <<clients, server_id, now, inbound, dispatched, sent>>
    /\ UNCHANGED <<peerVars, call>>

\* The loops of the two tasks go on while running is set and the event is not
LoopsOn == router.running /\ ~router.shutdown_event

\* A task finds the condition of its while loop false and returns (a task
\* that shutdown has cancelled ends in shutdown_receive_cancelled and
\* shutdown_prune_cancelled)
loop_ends(task) ==
    /\ router[task] = "running"
    /\ ~LoopsOn
    /\ router.shutting = ""
    /\ router' = [router EXCEPT ![task] = "done"]
    /\ UNCHANGED <<clients, server_id, now, inbound, dispatched, sent, pruning>>
    /\ UNCHANGED <<peerVars, call>>

\* ------------------------------------------------------------------------
\* HydraRouter: the receive loop and the prune loop
\* ------------------------------------------------------------------------
\* max_clients the router is constructed with: fewer than there are peers
max_clients == 2

\* _ensure_client_registered that registers nobody beyond max_clients
_ensure_client_registered_up_to_max(reg, client_id, message, t) ==
    IF /\ client_id \notin DOMAIN get_registry_data(reg)
       /\ Get(message, "sender") # None
       /\ Cardinality(DOMAIN reg.clients) < max_clients
    THEN register_client(reg, client_id, Get(message, "sender"), t)
    ELSE reg

\* _ensure_client_registered that gives an empty server slot to a server it
\* knows
_ensure_client_registered_promotes(reg, client_id, message, t) ==
    IF client_id \notin DOMAIN get_registry_data(reg) /\ Get(message, "sender") # None
    THEN register_client(reg, client_id, Get(message, "sender"), t)
    ELSE IF reg.server_id = None /\ reg.clients[client_id].client_type = HYDRA_SERVER
    THEN [reg EXCEPT !.server_id = client_id]
    ELSE reg

\* _ensure_client_registered that also touches a sender it knows
_ensure_client_registered_touches(reg, client_id, message, t) ==
    IF client_id \notin DOMAIN get_registry_data(reg) /\ Get(message, "sender") # None
    THEN register_client(reg, client_id, Get(message, "sender"), t)
    ELSE update_heartbeat(reg, client_id, t)

_ensure_client_registered(reg, client_id, message, t) ==
    IF client_id \notin DOMAIN get_registry_data(reg) /\ Get(message, "sender") # None
    THEN register_client(reg, client_id, Get(message, "sender"), t)
    ELSE reg

\* Envelopes that pass validate_router_message: sender is one of the valid
\* client types, elem a non-empty string, request_id absent or a non-empty
\* string.  Every elem other than heartbeat and client_registry_request is
\* routed alike; square_request stands for them.
RequestIds == {"r1"}
InElems == {HEARTBEAT, CLIENT_REGISTRY_REQUEST, SQUARE_REQUEST}
OptionalParts == {EmptyDict} \cup {[request_id |-> r] : r \in RequestIds}
Envelopes ==
    {[sender |-> s, elem |-> e] @@ o :
        s \in VALID_CLIENT_TYPES, e \in InElems, o \in OptionalParts}

\* One iteration of handle_requests, entered when recv_multipart returns a
\* two-frame message that parses and validates: ensure-registered, then
\* route.  Nothing between the receive and the sends suspends the task (the
\* registry lock is never contended), so the iteration is one step.  It
\* leaves the loop at the end of the iteration, with the iteration's
\* locals (inbound, dispatched, sent) still in place.
Handled(identity, message) ==
    LET reg1 == _ensure_client_registered(Registry(clients, server_id),
                                          identity, message, now)
        r == route_message(reg1, identity, message, now)
    IN  /\ clients' = r.reg.clients
        /\ server_id' = r.reg.server_id
        /\ inbound' = [identity |-> identity, message |-> message]
        /\ dispatched' = reg1
        /\ sent' = r.sent
        /\ UNCHANGED <<now, pruning, router, call>>

handle_requests ==
    /\ inbound = Nothing /\ pruning = Nothing
    /\ \E identity \in IDs, message \in Envelopes : Handled(identity, message)
    /\ UNCHANGED <<peerVars, router, call>>

\* The envelopes that keep a peer in the registry or ask for it: the
\* heartbeat and the client_registry_request of a client and of a server
LiveEnvelopes ==
    {[sender |-> s, elem |-> e] :
        s \in {HYDRA_CLIENT, HYDRA_SERVER},
        e \in {HEARTBEAT, CLIENT_REGISTRY_REQUEST}}

\* One iteration of handle_requests on a heartbeat or a registry request
handle_requests_live ==
    /\ inbound = Nothing /\ pruning = Nothing
    /\ \E identity \in IDs, message \in LiveEnvelopes : Handled(identity, message)
    /\ UNCHANGED <<peerVars, router, call>>

\* The iteration of handle_requests send by send.  socket.send_multipart is
\* awaited for each target in turn: it returns when the message is queued
\* for the target, raises when the socket refuses the target (ROUTER_MANDATORY
\* is set: an identity that is not connected is refused), and does not return
\* while the target cannot take the message.  inbound holds the sends the
\* iteration has still to make (pending) and the targets that are refused
\* and that are not ready.
SendEnvelopes ==
    {[sender |-> s, elem |-> e] :
        s \in {HYDRA_CLIENT, HYDRA_SERVER},
        e \in {HEARTBEAT, CLIENT_REGISTRY_REQUEST, SQUARE_REQUEST}}

handle_requests_sending ==
    /\ inbound = Nothing /\ pruning = Nothing
    /\ \E identity \in IDs, message \in SendEnvelopes :
       \E refused \in SUBSET IDs : \E unready \in SUBSET (IDs \ refused) :
          LET reg1 == _ensure_client_registered(Registry(clients, server_id),
                                                identity, message, now)
              r == route_message(reg1, identity, message, now)
          IN  /\ clients' = r.reg.clients
              /\ server_id' = r.reg.server_id
              /\ inbound' = [identity |-> identity, message |-> message,
                             pending |-> BagToSet(r.sent),
                             refused |-> refused, unready |-> unready]
              /\ dispatched' = reg1
              /\ sent' = EmptyBag
    /\ UNCHANGED <<now, pruning>>
    /\ UNCHANGED <<peerVars, router, call>>

\* send_multipart returns: the message is queued for the target
send_multipart_returns ==
    /\ inbound # Nothing
    /\ \E e \in inbound.pending :
          /\ e.to \notin inbound.refused \cup inbound.unready
          /\ sent' = sent (+) SetToBag({e})
          /\ inbound' = [inbound EXCEPT !.pending = @ \ {e}]
    /\ UNCHANGED <<clients, server_id, now, dispatched, pruning>>
    /\ UNCHANGED <<peerVars, router, call>>

\* the handler of a failed send that gives up the sends still to make
send_failed_aborts(pending, e) == {}

\* the handler of a failed send: the failure is logged, and the loop of
\* _broadcast_to_clients goes on with the targets that are left
send_failed(pending, e) == pending \ {e}

\* send_multipart raises: the socket refuses the target
send_multipart_raises ==
    /\ inbound # Nothing
    /\ \E e \in inbound.pending :
          /\ e.to \in inbound.refused
          /\ inbound' = [inbound EXCEPT !.pending = send_failed(@, e)]
    /\ UNCHANGED <<clients, server_id, now, dispatched, sent, pruning>>
    /\ UNCHANGED <<peerVars, router, call>>

\* A target that was not ready becomes ready: its peer has taken messages
\* off its queue
send_ready ==
    /\ inbound # Nothing
    /\ \E id \in inbound.unready :
          inbound' = [inbound EXCEPT !.unready = @ \ {id}]
    /\ UNCHANGED <<clients, server_id, now, dispatched, sent, pruning>>
    /\ UNCHANGED <<peerVars, router, call>>

\* The receive loop goes round once the iteration has made its sends
await_recv_sent ==
    /\ inbound # Nothing
    /\ inbound.pending = {}
    /\ inbound' = Nothing
    /\ dispatched' = Nothing
    /\ sent' = EmptyBag
    /\ UNCHANGED <<clients, server_id, now, pruning>>
    /\ UNCHANGED <<peerVars, router, call>>

\* The receive loop goes round: back to awaiting recv_multipart
await_recv ==
    /\ inbound # Nothing
    /\ inbound' = Nothing
    /\ dispatched' = Nothing
    /\ sent' = EmptyBag
    /\ UNCHANGED <<clients, server_id, now, pruning>>
    /\ UNCHANGED <<peerVars, router, call>>

\* One iteration of prune_dead_clients after its sleep.  The tasks are
\* scheduled cooperatively: the prune task runs while the receive loop is
\* suspended in recv_multipart, and nothing suspends it between the scan
\* and the return of prune_inactive_clients.  It leaves the loop holding
\* removed_clients.
prune_dead_clients ==
    LET before == Registry(clients, server_id)
        reg == prune_inactive_clients(before, ClientTimeout, now)
    IN  /\ inbound = Nothing /\ pruning = Nothing
        /\ clients' = reg.clients
        /\ server_id' = reg.server_id
        /\ pruning' = [before |-> before,
                       removed_clients |-> Inactive(before, ClientTimeout, now)]
        /\ UNCHANGED <<now, inbound, dispatched, sent>>
        /\ UNCHANGED <<peerVars, router, call>>

\* The prune loop goes round: back to asyncio.sleep(client_timeout / 2)
prune_sleep ==
    /\ pruning # Nothing
    /\ pruning' = Nothing
    /\ UNCHANGED <<clients, server_id, now, inbound, dispatched, sent>>
    /\ UNCHANGED <<peerVars, router, call>>

\* A caller of the registry's API removes a client (the router itself makes
\* no such call)
remove_client_call ==
    /\ inbound = Nothing /\ pruning = Nothing
    /\ \E client_id \in IDs :
          LET reg == remove_client(Registry(clients, server_id), client_id)
          IN  /\ clients' = reg.clients
              /\ server_id' = reg.server_id
    /\ UNCHANGED <<now, inbound, dispatched, sent, pruning>>
    /\ UNCHANGED <<peerVars, router, call>>

\* The callers of the registry's API.  Each method holds the registry's lock
\* from its first statement to its last and awaits nothing in between, so a
\* call is one step; call keeps the method called last, its arguments and
\* whether the same call came directly before it.
RegisteredTypes == {HYDRA_CLIENT, HYDRA_SERVER, SIMPLE_SERVER}

Called(c) == c @@ [again |-> \A k \in DOMAIN c : Get(call, k) = c[k]]

register_client_call ==
    /\ \E client_id \in IDs, client_type \in RegisteredTypes :
          LET reg == register_client(Registry(clients, server_id),
                                     client_id, client_type, now)
          IN  /\ clients' = reg.clients
              /\ server_id' = reg.server_id
              /\ call' = Called([function |-> "register_client",
                                 client_id |-> client_id, client_type |-> client_type])
    /\ UNCHANGED <<now, inbound, dispatched, sent, pruning, router>>
    /\ UNCHANGED peerVars

update_heartbeat_call ==
    /\ \E client_id \in IDs :
          LET reg == update_heartbeat(Registry(clients, server_id), client_id, now)
          IN  /\ clients' = reg.clients
              /\ server_id' = reg.server_id
              /\ call' = Called([function |-> "update_heartbeat", client_id |-> client_id])
    /\ UNCHANGED <<now, inbound, dispatched, sent, pruning, router>>
    /\ UNCHANGED peerVars

remove_client_recorded ==
    /\ \E client_id \in IDs :
          LET reg == remove_client(Registry(clients, server_id), client_id)
          IN  /\ clients' = reg.clients
              /\ server_id' = reg.server_id
              /\ call' = Called([function |-> "remove_client", client_id |-> client_id])
    /\ UNCHANGED <<now, inbound, dispatched, sent, pruning, router>>
    /\ UNCHANGED peerVars

prune_inactive_clients_call ==
    /\ LET reg == prune_inactive_clients(Registry(clients, server_id), ClientTimeout, now)
       IN  /\ clients' = reg.clients
           /\ server_id' = reg.server_id
           /\ call' = Called([function |-> "prune_inactive_clients"])
    /\ UNCHANGED <<now, inbound, dispatched, sent, pruning, router>>
    /\ UNCHANGED peerVars

\* The clock advances
Tick ==
    /\ inbound = Nothing /\ pruning = Nothing
    /\ now < MaxTime
    /\ now' = now + 1
    /\ UNCHANGED <<clients, server_id, inbound, dispatched, sent, pruning>>
    /\ UNCHANGED <<peerVars, router, call>>

\* ------------------------------------------------------------------------
\* The wire: JSON values, MessageValidator and the frames recv_multipart
\* returns
\* ------------------------------------------------------------------------

\* A JSON value carries its type: jsonapi.loads yields a str, a number, a
\* dict, a list or None.  The payload of a data dict is kept as it is.
JStr(v) == [str |-> v]
JNum(v) == [num |-> v]
JDict(v) == [dict |-> v]
JList == [list |-> <<>>]
JNull == [null |-> TRUE]
\* true and false: a bool, which is an int to isinstance
JBool(v) == [bool |-> v]
\* a str of n characters, of which the model keeps the first
JLong(n) == [str |-> "x", len |-> n]
\* bytes on which jsonapi.loads raises ValueError
NotJson == [invalid |-> TRUE]

isinstance(j, type) == type \in DOMAIN j

\* str.strip() on the strings of the model: "" and " " are the blank ones
strip(v) == IF v \in {"", " "} THEN "" ELSE v

\* jsonapi.dumps of an envelope of the model, key by key: timestamp is a
\* number, data a dict, every other key a string or None (null)
Json(message) ==
    [k \in DOMAIN message |->
        IF k = "timestamp" THEN JNum(message[k])
        ELSE IF k = "data" THEN JDict(message[k])
        ELSE IF message[k] = None THEN JNull
        ELSE JStr(message[k])]

\* the envelope of the model that jsonapi.loads yields for a JSON object
Untag(j) ==
    [k \in DOMAIN j |->
        IF isinstance(j[k], "str") THEN j[k].str
        ELSE IF isinstance(j[k], "num") THEN j[k].num
        ELSE IF isinstance(j[k], "dict") THEN j[k].dict
        ELSE None]

MAX_MESSAGE_SIZE == 1024 * 1024
MAX_DATA_SIZE == 512 * 1024

\* len(str(n)) of an integer
RECURSIVE Digits(_)
Digits(n) == IF n < 0 THEN 1 + Digits(-n) ELSE IF n < 10 THEN 1 ELSE 1 + Digits(n \div 10)

\* what a data dict of the model without a blob serialises to, at most
SmallData == 256

\* len(json.dumps(data).encode("utf-8")) of a data dict: {"blob": "x..."} with
\* a string of data.blob characters, {}, or one of the small dicts
dumps_data(data) ==
    IF "blob" \in DOMAIN data THEN 12 + data.blob
    ELSE IF DOMAIN data = {} THEN 2
    ELSE SmallData

\* len(json.dumps(v).encode("utf-8")) of a value of an envelope (the strings
\* of the model are ASCII and need no escape)
dumps_value(j) ==
    IF isinstance(j, "str") THEN (IF "len" \in DOMAIN j THEN j.len ELSE Len(j.str)) + 2
    ELSE IF isinstance(j, "num") THEN Digits(j.num)
    ELSE IF isinstance(j, "bool") THEN (IF j.bool THEN 4 ELSE 5)
    ELSE IF isinstance(j, "dict") THEN dumps_data(j.dict)
    ELSE IF isinstance(j, "list") THEN 2
    ELSE 4

\* the members of a JSON object: "key": value, joined by ", "
RECURSIVE dumps_members(_, _)
dumps_members(message, keys) ==
    IF keys = {} THEN 0
    ELSE LET k == CHOOSE key \in keys : TRUE
         IN  Len(k) + 4 + dumps_value(message[k])
                + (IF keys = {k} THEN 0 ELSE 2)
                + dumps_members(message, keys \ {k})

\* len(json.dumps(message).encode("utf-8")) of an envelope
dumps(message) == 2 + dumps_members(message, DOMAIN message)

_validate_message_size(message) ==
    /\ dumps(message) <= MAX_MESSAGE_SIZE
    /\ ("data" \in DOMAIN message /\ ~isinstance(message["data"], "null")) =>
          dumps_value(message["data"]) <= MAX_DATA_SIZE

_validate_sender_field(message) ==
    /\ isinstance(message["sender"], "str")
    /\ strip(message["sender"].str) # ""
    /\ message["sender"].str \in VALID_CLIENT_TYPES

_validate_elem_field(message) ==
    /\ isinstance(message["elem"], "str")
    /\ strip(message["elem"].str) # ""

_validate_optional_fields(message) ==
    /\ "data" \in DOMAIN message =>
          (isinstance(message["data"], "null") \/ isinstance(message["data"], "dict"))
    /\ "client_id" \in DOMAIN message =>
          /\ isinstance(message["client_id"], "str")
          /\ strip(message["client_id"].str) # ""
    /\ "timestamp" \in DOMAIN message =>
          /\ isinstance(message["timestamp"], "num") \/ isinstance(message["timestamp"], "bool")
          /\ isinstance(message["timestamp"], "num") => message["timestamp"].num >= 0
    /\ "request_id" \in DOMAIN message =>
          /\ isinstance(message["request_id"], "str")
          /\ strip(message["request_id"].str) # ""

\* validate_router_message that accepts any non-empty sender string
validate_router_message_any_sender(message) ==
    /\ isinstance(message, "dict")
    /\ {"sender", "elem"} \subseteq DOMAIN message.dict
    /\ isinstance(message.dict["sender"], "str") /\ strip(message.dict["sender"].str) # ""
    /\ _validate_elem_field(message.dict)
    /\ _validate_optional_fields(message.dict)
    /\ _validate_message_size(message.dict)

\* validate_router_message that leaves out the size validation
validate_router_message_of_any_size(message) ==
    /\ isinstance(message, "dict")
    /\ {"sender", "elem"} \subseteq DOMAIN message.dict
    /\ _validate_sender_field(message.dict)
    /\ _validate_elem_field(message.dict)
    /\ _validate_optional_fields(message.dict)

\* validate_router_message: is_valid, of what jsonapi.loads has yielded
validate_router_message(message) ==
    /\ isinstance(message, "dict")
    /\ {"sender", "elem"} \subseteq DOMAIN message.dict
    /\ _validate_sender_field(message.dict)
    /\ _validate_elem_field(message.dict)
    /\ _validate_optional_fields(message.dict)
    /\ _validate_message_size(message.dict)

\* validate_router_message: error_message, by the check that reports it ("" for
\* a valid message)
validate_router_message_error(message) ==
    IF ~isinstance(message, "dict") THEN "Message must be dictionary"
    ELSE IF ~({"sender", "elem"} \subseteq DOMAIN message.dict) THEN "Missing required fields"
    ELSE IF ~_validate_sender_field(message.dict) THEN "sender"
    ELSE IF ~_validate_elem_field(message.dict) THEN "elem"
    ELSE IF ~_validate_optional_fields(message.dict) THEN "optional"
    ELSE IF ~_validate_message_size(message.dict) THEN "size exceeds maximum"
    ELSE ""

\* Envelopes with every optional field and with a key the schema does not
\* know
WireOptionalParts ==
    {EmptyDict,
     [request_id |-> "r1"],
     [trace |-> "t1"],
     [request_id |-> "r1", trace |-> "t1"],
     [request_id |-> "r1", client_id |-> "c1", timestamp |-> 0,
      data |-> [number |-> 5]]}
WireEnvelopes ==
    {[sender |-> sender, elem |-> elem] @@ o :
        sender \in VALID_CLIENT_TYPES, elem \in InElems, o \in WireOptionalParts}

Without(d, key) == [k \in DOMAIN d \ {key} |-> d[k]]
With(d, key, v) == (key :> v) @@ d

\* JSON objects that fail one check of the validator each
MalformedEnvelopes ==
    LET base == Json([sender |-> HYDRA_CLIENT, elem |-> SQUARE_REQUEST,
                      request_id |-> "r1"])
    IN  {Without(base, "sender"), Without(base, "elem"), EmptyDict}
        \cup {With(base, "sender", v) :
                 v \in {JNull, JNum(1), JStr(""), JStr(" "), JStr("Hacker")}}
        \cup {With(base, "elem", v) : v \in {JNull, JNum(1), JStr(""), JStr(" ")}}
        \cup {With(base, "data", v) : v \in {JList, JStr("x")}}
        \cup {With(base, "client_id", v) : v \in {JNull, JStr("")}}
        \cup {With(base, "timestamp", v) : v \in {JNum(-1), JStr("x"), JNull}}
        \cup {With(base, "request_id", v) : v \in {JNull, JNum(1), JStr(""), JStr(" ")}}

\* what the second frame can hold
Payloads ==
    {NotJson, JList, JNull, JStr("x"), JNum(1)}
        \cup {JDict(m) : m \in MalformedEnvelopes}
        \cup {JDict(Json(m)) : m \in WireEnvelopes}

\* what recv_multipart can return: the identity frame alone, two frames, or
\* three frames (a peer that sends an empty delimiter frame)
Frames ==
    {<<identity>> : identity \in IDs}
        \cup {<<identity, msg_bytes>> : identity \in IDs, msg_bytes \in Payloads}
        \cup {<<identity, NotJson, msg_bytes>> :
                 identity \in IDs,
                 msg_bytes \in {JDict(Json([sender |-> HYDRA_SERVER, elem |-> HEARTBEAT]))}}

\* the checks of handle_requests that end an iteration with continue
Discarded(frames) ==
    \/ Len(frames) # 2
    \/ isinstance(frames[2], "invalid")
    \/ ~isinstance(frames[2], "dict")
    \/ ~validate_router_message(frames[2])

\* One iteration of handle_requests on whatever recv_multipart returns
handle_requests_frames ==
    /\ inbound = Nothing /\ pruning = Nothing
    /\ \E frames \in Frames :
          IF Discarded(frames)
          THEN /\ inbound' = [discarded |-> frames]
               /\ dispatched' = Nothing
               /\ sent' = EmptyBag
               /\ UNCHANGED <<clients, server_id, now, pruning>>
          ELSE Handled(frames[1], Untag(frames[2].dict))
    /\ UNCHANGED <<peerVars, router, call>>

\* ------------------------------------------------------------------------
\* MQClient (the peer library) and the two peers of the end-to-end test
\* ------------------------------------------------------------------------

\* An Optional[...] field of a ZMQMessage: <<>> is None, <<v>> is the value v
Some(v) == <<v>>
NoValue == <<>>

ZMQMessage(message_type, timestamp, client_id, request_id, data) ==
    [message_type |-> message_type, timestamp |-> timestamp,
     client_id |-> client_id, request_id |-> request_id, data |-> data]

\* MsgType: the closed enumeration of message types
MsgType ==
    {"heartbeat", "square_request", "square_response", "error",
     "client_registry_request", "client_registry_response",
     "start_simulation", "stop_simulation", "pause_simulation",
     "resume_simulation", "reset_simulation", "get_simulation_status",
     "status_update", "simulation_started", "simulation_stopped",
     "simulation_paused", "simulation_resumed", "simulation_reset"}

\* _create_message_type_mapping: MsgType value -> DRouter elem
message_type_mapping == [t \in MsgType |-> t]

_map_message_type_to_elem(message_type) ==
    IF message_type \in DOMAIN message_type_mapping
    THEN message_type_mapping[message_type]
    ELSE message_type

\* _map_elem_to_message_type falling back on a generic type for an elem it
\* does not know
_map_elem_to_message_type_generic(elem) ==
    IF \E t \in DOMAIN message_type_mapping : message_type_mapping[t] = elem
    THEN Some(CHOOSE t \in DOMAIN message_type_mapping : message_type_mapping[t] = elem)
    ELSE Some(SQUARE_RESPONSE)

\* _map_elem_to_message_type: the MsgType, or <<>> where the code raises
\* MessageFormatError
_map_elem_to_message_type(elem) ==
    IF \E t \in DOMAIN message_type_mapping : message_type_mapping[t] = elem
    THEN Some(CHOOSE t \in DOMAIN message_type_mapping : message_type_mapping[t] = elem)
    ELSE IF elem \in MsgType THEN Some(elem) ELSE NoValue

_convert_to_router_format(client_type, m) ==
    [sender |-> client_type,
     elem |-> _map_message_type_to_elem(m.message_type),
     timestamp |-> m.timestamp]
        @@ (IF m.data # NoValue THEN [data |-> m.data[1]] ELSE EmptyDict)
        @@ (IF m.client_id # NoValue THEN [client_id |-> m.client_id[1]] ELSE EmptyDict)
        @@ (IF m.request_id # NoValue /\ m.request_id[1] # ""
            THEN [request_id |-> m.request_id[1]] ELSE EmptyDict)

\* dict.get(key) of a string-valued key, as an Optional
GetStr(d, key) == IF key \in DOMAIN d /\ d[key] # None THEN Some(d[key]) ELSE NoValue

\* dict.get(key) of the data key, as an Optional (no envelope of the model
\* carries "data": null)
GetData(d) == IF "data" \in DOMAIN d THEN Some(d["data"]) ELSE NoValue

\* _convert_from_router_format: the ZMQMessage, or <<>> where the code raises
\* MessageFormatError
_convert_from_router_format(router_message, t) ==
    LET elem == IF "elem" \in DOMAIN router_message THEN router_message["elem"] ELSE ""
        message_type == _map_elem_to_message_type(elem)
    IN  IF message_type = NoValue
        THEN NoValue
        ELSE Some(ZMQMessage(message_type[1],
                             IF "timestamp" \in DOMAIN router_message
                             THEN router_message["timestamp"] ELSE t,
                             GetStr(router_message, "client_id"),
                             GetStr(router_message, "request_id"),
                             GetData(router_message)))

\* The cast of test_client_server_square_calculation
ClientPeer == "p1"
ServerPeer == "p2"
Cast == {ClientPeer, ServerPeer}
CastTypes(p) ==
    IF p = ClientPeer THEN {HYDRA_CLIENT, SIMPLE_CLIENT} ELSE {HYDRA_SERVER, SIMPLE_SERVER}

\* message_handlers of each peer: the client handles square_response, the
\* server handles square_request
message_handlers(p) == IF p = ServerPeer THEN {SQUARE_REQUEST} ELSE {SQUARE_RESPONSE}

\* pending_requests holds the request_ids whose future is registered;
\* commands holds, per request_id, where its send_command call stands
NotConnected ==
    [connected |-> FALSE, client_type |-> None, heartbeats |-> 0,
     pending_requests |-> {}, commands |-> EmptyDict,
     requested |-> {}, received |-> {}, handled |-> {}]

\* MQClient.connect
connect(p, client_type) ==
    /\ ~peer[p].connected
    /\ peer' = [peer EXCEPT ![p].connected = TRUE, ![p].client_type = client_type]
    /\ UNCHANGED <<wire_in, wire_out>>
    /\ UNCHANGED routerVars

\* send_message: convert and put the frame on the socket
send_message(p, m) ==
    Append(wire_in,
           [identity |-> p,
            message |-> _convert_to_router_format(peer[p].client_type, m)])

\* _heartbeat_loop: the heartbeat on start, then one per interval
_heartbeat_loop(p) ==
    /\ peer[p].connected
    /\ peer[p].heartbeats < MaxHeartbeats
    /\ wire_in' = send_message(p, ZMQMessage(HEARTBEAT, now, Some(p), NoValue,
                                             Some([status |-> "alive"])))
    /\ peer' = [peer EXCEPT ![p].heartbeats = @ + 1]
    /\ UNCHANGED wire_out
    /\ UNCHANGED routerVars

\* The client application sends its square_request once both peers are
\* connected and the router has handled the heartbeat each sent on connect
client_request(r) ==
    /\ \A p \in Cast : peer[p].connected /\ peer[p].heartbeats >= 1
    /\ wire_in = <<>> /\ inbound = Nothing
    /\ peer[ClientPeer].requested = {}
    /\ wire_in' = send_message(ClientPeer,
                               ZMQMessage(SQUARE_REQUEST, now, Some(ClientPeer),
                                          Some(r), Some([number |-> 5])))
    /\ peer' = [peer EXCEPT ![ClientPeer].requested = @ \cup {r}]
    /\ UNCHANGED wire_out
    /\ UNCHANGED routerVars

\* handle_square_request of the server: reply with the request's request_id
handle_square_request(p, m) ==
    send_message(p, ZMQMessage(SQUARE_RESPONSE, now, Some(p), m.request_id,
                               Some([number |-> m.data[1].number,
                                     result |-> m.data[1].number * m.data[1].number])))

\* request_ids send_command can draw (uuid4)
CommandIds == {"r1", "r2"}

\* One send_command call: its future and what became of it.  state is
\* sending (future registered, send_message not yet returned), waiting (in
\* wait_for), result (returned the response), timeout (raised the timeout
\* error), failed (send_message raised) or cancelled (future cancelled by
\* disconnect); set_results counts the future.set_result calls.
Command(message_type) ==
    [state |-> "sending", message_type |-> message_type,
     response |-> Nothing, set_results |-> 0]

\* _process_received_message that hands the reply to the future but leaves
\* the entry in pending_requests
_complete_pending_keeps_entry(peers, p, request_id, message) ==
    [peers EXCEPT
        ![p].commands[request_id] =
            [@ EXCEPT !.state = "result", !.response = message,
                      !.set_results = @ + 1]]

\* _process_received_message, the branch of a reply to a pending request:
\* pop the future and, unless it is done, set its result
_complete_pending(peers, p, request_id, message) ==
    [peers EXCEPT
        ![p].pending_requests = @ \ {request_id},
        ![p].commands[request_id] =
            IF @.state \in {"sending", "waiting"}
            THEN [@ EXCEPT !.state = "result", !.response = message,
                           !.set_results = @ + 1]
            ELSE @]

\* send_command, up to the await in send_message: a fresh request_id, the
\* future registered under it; send_message raises at once when the client
\* is not connected, and the entry is popped again
send_command(p, message_type) ==
    /\ \E request_id \in CommandIds \ DOMAIN peer[p].commands :
          peer' = IF peer[p].connected
                  THEN [peer EXCEPT
                          ![p].pending_requests = @ \cup {request_id},
                          ![p].commands = (request_id :> Command(message_type)) @@ @,
                          ![p].requested = @ \cup {request_id}]
                  ELSE [peer EXCEPT
                          ![p].commands =
                              (request_id :> [Command(message_type)
                                                 EXCEPT !.state = "failed"]) @@ @]
    /\ UNCHANGED <<wire_in, wire_out>>
    /\ UNCHANGED routerVars

\* send_command, send_message returns: the request is on the socket and the
\* call waits for its future (a disconnect in between has cancelled the
\* future, and the call ends there)
send_command_sent(p) ==
    \E request_id \in DOMAIN peer[p].commands :
        /\ peer[p].commands[request_id].state = "sending"
        /\ peer[p].connected
        /\ wire_in' = send_message(p, ZMQMessage(
                                        peer[p].commands[request_id].message_type,
                                        now, Some(p), Some(request_id),
                                        Some([number |-> 5])))
        /\ peer' = [peer EXCEPT ![p].commands[request_id].state = "waiting"]
        /\ UNCHANGED wire_out
        /\ UNCHANGED routerVars

\* the handler of asyncio.TimeoutError that raises without popping the entry
_timed_out_keeps_entry(peers, p, request_id) ==
    [peers EXCEPT ![p].commands[request_id].state = "timeout"]

\* send_command, the handler of asyncio.TimeoutError: pop the entry and raise
\* the timeout error
_timed_out(peers, p, request_id) ==
    [peers EXCEPT
        ![p].pending_requests = @ \ {request_id},
        ![p].commands[request_id].state = "timeout"]

\* send_command, wait_for runs out
send_command_timeout(p) ==
    \E request_id \in DOMAIN peer[p].commands :
        /\ peer[p].commands[request_id].state = "waiting"
        /\ peer' = _timed_out(peer, p, request_id)
        /\ UNCHANGED <<wire_in, wire_out>>
        /\ UNCHANGED routerVars

\* disconnect that forgets to clear pending_requests
disconnect_cancelled(peers, p) ==
    [peers EXCEPT
        ![p].connected = FALSE,
        ![p].commands =
            [r \in DOMAIN @ |->
                IF r \in peers[p].pending_requests /\ @[r].state \in {"sending", "waiting"}
                THEN [@[r] EXCEPT !.state = "cancelled"] ELSE @[r]]]

\* what disconnect leaves of the client: not connected, both tasks
\* cancelled, every pending future that is not done cancelled, the table
\* cleared
disconnected(peers, p) ==
    [peers EXCEPT
        ![p].connected = FALSE,
        ![p].pending_requests = {},
        ![p].commands =
            [r \in DOMAIN @ |->
                IF r \in peers[p].pending_requests /\ @[r].state \in {"sending", "waiting"}
                THEN [@[r] EXCEPT !.state = "cancelled"] ELSE @[r]]]

\* MQClient.disconnect; closing the socket drops what it had received
disconnect(p) ==
    /\ peer[p].connected
    /\ peer' = disconnected(peer, p)
    /\ wire_out' = [wire_out EXCEPT ![p] = <<>>]
    /\ UNCHANGED wire_in
    /\ UNCHANGED routerVars

\* _receive_loop that takes a reply for the answer to whatever request is
\* pending
_receive_loop_any_pending(p) ==
    /\ peer[p].connected
    /\ wire_out[p] # <<>>
    /\ LET message == Head(wire_out[p])
           request_id == GetStr(message, "request_id")
           zmq_message == _convert_from_router_format(message, now)
           seen == [peer EXCEPT ![p].received = @ \cup {message}]
       IN  /\ wire_out' = [wire_out EXCEPT ![p] = Tail(@)]
           /\ IF request_id # NoValue /\ peer[p].pending_requests # {}
              THEN /\ peer' = _complete_pending(
                                 seen, p, CHOOSE r \in peer[p].pending_requests : TRUE,
                                 message)
                   /\ UNCHANGED wire_in
              ELSE IF zmq_message # NoValue
                      /\ zmq_message[1].message_type \in message_handlers(p)
              THEN /\ peer' = [seen EXCEPT ![p].handled = @ \cup {zmq_message[1]}]
                   /\ IF p = ServerPeer
                      THEN wire_in' = handle_square_request(p, zmq_message[1])
                      ELSE UNCHANGED wire_in
              ELSE /\ peer' = seen
                   /\ UNCHANGED wire_in
    /\ UNCHANGED routerVars

\* _receive_loop: receive_message returns a frame, _process_received_message
\* completes the pending request it answers, or else hands it to the handler
\* registered for its message type
_receive_loop(p) ==
    /\ peer[p].connected
    /\ wire_out[p] # <<>>
    /\ LET message == Head(wire_out[p])
           request_id == GetStr(message, "request_id")
           zmq_message == _convert_from_router_format(message, now)
           seen == [peer EXCEPT ![p].received = @ \cup {message}]
       IN  /\ wire_out' = [wire_out EXCEPT ![p] = Tail(@)]
           /\ IF request_id # NoValue /\ request_id[1] # ""
                 /\ request_id[1] \in peer[p].pending_requests
              THEN /\ peer' = _complete_pending(seen, p, request_id[1], message)
                   /\ UNCHANGED wire_in
              ELSE IF zmq_message # NoValue
                      /\ zmq_message[1].message_type \in message_handlers(p)
              THEN /\ peer' = [seen EXCEPT ![p].handled = @ \cup {zmq_message[1]}]
                   /\ IF p = ServerPeer
                      THEN wire_in' = handle_square_request(p, zmq_message[1])
                      ELSE UNCHANGED wire_in
              ELSE /\ peer' = seen
                   /\ UNCHANGED wire_in
    /\ UNCHANGED routerVars

\* The server application sends its response to a request once more, when
\* nothing else is under way
send_message_again(p) ==
    /\ peer[p].connected
    /\ wire_in = <<>> /\ \A id \in IDs : wire_out[id] = <<>>
    /\ \E m \in peer[p].handled : wire_in' = handle_square_request(p, m)
    /\ UNCHANGED <<wire_out, peer>>
    /\ UNCHANGED routerVars

\* send_multipart calls whose message overtakes what the socket holds
Delivered_in_front(out, queues) ==
    [id \in IDs |->
        IF \E e \in BagToSet(out) : e.to = id
        THEN <<(CHOOSE e \in BagToSet(out) : e.to = id).msg>> \o queues[id]
        ELSE queues[id]]

\* The send_multipart calls of one iteration, put on the targets' sockets
Delivered(out, queues) ==
    [id \in IDs |->
        IF \E e \in BagToSet(out) : e.to = id
        THEN Append(queues[id], (CHOOSE e \in BagToSet(out) : e.to = id).msg)
        ELSE queues[id]]

\* ZMQMessage values an application can make: every message type, with
\* client_id, request_id and data each left out or given (the empty string
\* and the empty dict among the values given)
AppEnvelopes ==
    {ZMQMessage(message_type, timestamp, client_id, request_id, data) :
        message_type \in MsgType,
        timestamp \in {0, 1},
        client_id \in {NoValue, Some("p1"), Some("")},
        request_id \in {NoValue, Some("r1"), Some("")},
        data \in {NoValue, Some([number |-> 5]), Some(EmptyDict)}}

\* Envelopes as a peer can receive them: elem one that has a message type,
\* one that has none ("status" is an elem of DRouter), or left out
WireElems == {HEARTBEAT, SQUARE_RESPONSE, "status", "telemetry"}
WireForms ==
    {[sender |-> HYDRA_SERVER, timestamp |-> 1] @@ e @@ r @@ d :
        e \in {EmptyDict} \cup {[elem |-> x] : x \in WireElems},
        r \in {EmptyDict, [request_id |-> "r1"]},
        d \in {EmptyDict, [data |-> [number |-> 5]]}}

\* envelopes a peer receives in the conversion scenario
MaxReceived == 1

\* A caller converts a ZMQMessage to the router format and back, on an
\* MQClient of any valid client_type that is not connected
convert_round_trip ==
    /\ call = Nothing
    /\ ~peer[ClientPeer].connected
    /\ \E client_type \in VALID_CLIENT_TYPES, message \in AppEnvelopes :
          LET router_message == _convert_to_router_format(client_type, message)
          IN  call' = [function |-> "round_trip",
                       client_type |-> client_type,
                       message |-> message,
                       router_message |-> router_message,
                       result |-> _convert_from_router_format(router_message, now)]
    /\ UNCHANGED <<clients, server_id, now, inbound, dispatched, sent, pruning, router>>
    /\ UNCHANGED peerVars

\* A caller converts an envelope in router format, on an MQClient that is not
\* connected
convert_from_router_format ==
    /\ call = Nothing
    /\ ~peer[ClientPeer].connected
    /\ \E router_message \in WireForms :
          call' = [function |-> "_convert_from_router_format",
                   router_message |-> router_message,
                   result |-> _convert_from_router_format(router_message, now)]
    /\ UNCHANGED <<clients, server_id, now, inbound, dispatched, sent, pruning, router>>
    /\ UNCHANGED peerVars

\* The call has returned or raised
call_returns ==
    /\ call # Nothing
    /\ call' = Nothing
    /\ UNCHANGED <<clients, server_id, now, inbound, dispatched, sent, pruning, router>>
    /\ UNCHANGED peerVars

\* The socket of a connected peer has an envelope for it, sent through the
\* router by a peer that writes the router format itself
recv_json(p) ==
    /\ peer[p].connected
    /\ wire_out[p] = <<>>
    /\ Cardinality(peer[p].received) < MaxReceived
    /\ \E router_message \in WireForms :
          wire_out' = [wire_out EXCEPT ![p] = <<router_message>>]
    /\ UNCHANGED <<wire_in, peer>>
    /\ UNCHANGED routerVars

\* envelopes the applications send in the ordering scenario
MaxSends == 4

\* what the application of peer p sends besides heartbeats: the client
\* asks the router for its registry, the server sends results
OrderTypes(p) ==
    IF p = ClientPeer
    THEN {HEARTBEAT, CLIENT_REGISTRY_REQUEST}
    ELSE {HEARTBEAT, SQUARE_RESPONSE}

\* A peer sends an envelope, stamped with time.time(); time has passed
\* before anything is sent again
send_message_at(p) ==
    /\ peer[p].connected
    /\ now < MaxSends
    /\ \E message_type \in OrderTypes(p) :
          wire_in' = send_message(p, ZMQMessage(message_type, now, Some(p),
                                                NoValue, Some([number |-> 5])))
    /\ now' = now + 1
    /\ UNCHANGED <<clients, server_id, inbound, dispatched, sent, pruning, router>>
    /\ UNCHANGED <<wire_out, peer, call>>

\* One iteration of handle_requests on the oldest frame the peers have sent
handle_requests_wire ==
    /\ inbound = Nothing
    /\ wire_in # <<>>
    /\ Handled(Head(wire_in).identity, Head(wire_in).message)
    /\ wire_in' = Tail(wire_in)
    /\ wire_out' = Delivered(sent', wire_out)
    /\ UNCHANGED peer

\* ------------------------------------------------------------------------
\* Specifications
\* ------------------------------------------------------------------------
Init ==
    /\ clients = EmptyDict
    /\ server_id = None
    /\ now = 0
    /\ inbound = Nothing
    /\ dispatched = Nothing
    /\ sent = EmptyBag
    /\ pruning = Nothing
    /\ wire_in = <<>>
    /\ wire_out = [id \in IDs |-> <<>>]
    /\ peer = [id \in IDs |-> NotConnected]
    /\ router = Started
    /\ call = Nothing

\* The state after construction, before start
InitConstructed ==
    /\ clients = EmptyDict
    /\ server_id = None
    /\ now = 0
    /\ inbound = Nothing
    /\ dispatched = Nothing
    /\ sent = EmptyBag
    /\ pruning = Nothing
    /\ wire_in = <<>>
    /\ wire_out = [id \in IDs |-> <<>>]
    /\ peer = [id \in IDs |-> NotConnected]
    /\ router = Constructed
    /\ call = Nothing

\* The router under every validated inbound envelope, with the prune loop
\* and the clock
Next == handle_requests \/ await_recv \/ prune_dead_clients \/ prune_sleep \/ Tick

Spec == Init /\ [][Next]_vars

\* The router, with a caller that uses ClientRegistry.remove_client
NextAPI == Next \/ remove_client_call

SpecAPI == Init /\ [][NextAPI]_vars

\* The registry under every sequence of calls of its API, and the clock
NextReg ==
    \/ register_client_call
    \/ update_heartbeat_call
    \/ remove_client_recorded
    \/ prune_inactive_clients_call
    \/ Tick

SpecReg == Init /\ [][NextReg]_vars

\* The router while it runs, under the heartbeats and the registry requests
\* of its peers: time passes, the prune task wakes from each sleep, and each
\* loop goes round when its iteration is over
NextLive ==
    handle_requests_live \/ await_recv \/ prune_dead_clients \/ prune_sleep \/ Tick

SpecLive ==
    /\ Init
    /\ [][NextLive]_vars
    /\ SF_vars(Tick)
    /\ SF_vars(prune_dead_clients)
    /\ WF_vars(await_recv)
    /\ WF_vars(prune_sleep)

\* The router with a peer whose heartbeats keep coming: the clock does not
\* pass client_timeout beyond the last_heartbeat of that peer's entry
SteadyPeer == "p1"

Tick_between_heartbeats ==
    /\ SteadyPeer \in DOMAIN clients
           => now + 1 - clients[SteadyPeer].last_heartbeat <= ClientTimeout
    /\ Tick

NextBeat ==
    \/ handle_requests_live
    \/ await_recv
    \/ prune_dead_clients
    \/ prune_sleep
    \/ Tick_between_heartbeats

SpecBeat == Init /\ [][NextBeat]_vars

\* The receive loop of the router send by send, under targets the socket
\* refuses and targets that are not ready
NextSend ==
    \/ handle_requests_sending
    \/ send_multipart_returns
    \/ send_multipart_raises
    \/ send_ready
    \/ await_recv_sent

SpecSend == Init /\ [][NextSend]_vars

\* asyncio resumes the receive loop when the send it awaits has returned
\* or raised; nothing makes a peer take messages off its queue
SpecSendFair ==
    /\ SpecSend
    /\ WF_vars(send_multipart_returns)
    /\ WF_vars(send_multipart_raises)
    /\ WF_vars(await_recv_sent)

\* The router from its construction: start and shutdown are called at any
\* moment, and the two tasks run between
NextLife ==
    \/ start_call
    \/ shutdown_call
    \/ shutdown_receive_cancelled
    \/ shutdown_prune_cancelled
    \/ LoopsOn /\ handle_requests_live
    \/ LoopsOn /\ await_recv
    \/ LoopsOn /\ prune_dead_clients
    \/ LoopsOn /\ prune_sleep
    \/ \E task \in {"request_handler_task", "client_pruner_task"} : loop_ends(task)

SpecLife == InitConstructed /\ [][NextLife]_vars

\* A string in an unknown key that brings the smallest envelope to exactly
\* MAX_MESSAGE_SIZE bytes
LongTrace ==
    JLong(MAX_MESSAGE_SIZE
            - dumps([sender |-> JStr(HYDRA_CLIENT), elem |-> JStr(HEARTBEAT),
                     trace |-> JStr("")]))

\* What validate_router_message can be called with: a value that is no dict,
\* or a dict in which each field of the schema and a key the schema does not
\* know is left out or has one of the given values
ValidatorInputs ==
    LET field(key, values) == {EmptyDict} \cup {key :> v : v \in values}
    IN  {JList, JNull, JStr("x"), JNum(1)}
        \cup {JDict(sender @@ elem @@ data @@ client_id @@ timestamp @@ request_id @@ trace) :
                 sender \in field("sender",
                                  {JStr(t) : t \in VALID_CLIENT_TYPES}
                                      \cup {JStr("Hacker"), JStr(" "), JNum(1)}),
                 elem \in field("elem",
                                {JStr(HEARTBEAT), JStr("status"), JStr(""), JStr(" "), JNull}),
                 data \in field("data",
                                {JNull, JDict([number |-> 5]), JList,
                                 JDict([blob |-> MAX_DATA_SIZE - 12]),
                                 JDict([blob |-> MAX_DATA_SIZE - 11])}),
                 client_id \in field("client_id", {JStr("c1"), JStr(" "), JNull}),
                 timestamp \in field("timestamp",
                                     {JNum(0), JNum(-1), JBool(TRUE), JStr("x")}),
                 request_id \in field("request_id", {JStr("r1"), JStr(""), JNum(1)}),
                 trace \in field("trace", {JStr("t1"), LongTrace})}

\* A caller validates a message
validate_router_message_call ==
    /\ call = Nothing
    /\ \E message \in ValidatorInputs :
          call' = [function |-> "validate_router_message",
                   message |-> message,
                   result |-> validate_router_message(message),
                   error |-> validate_router_message_error(message)]
    /\ UNCHANGED <<clients, server_id, now, inbound, dispatched, sent, pruning, router>>
    /\ UNCHANGED peerVars

NextValid ==
    \/ validate_router_message_call
    \/ call_returns

SpecValid == Init /\ [][NextValid]_vars

\* The conversions of MQClient, called directly and on the receive path of
\* the client
NextConv ==
    \/ convert_round_trip
    \/ convert_from_router_format
    \/ call_returns
    \/ call = Nothing /\ connect(ClientPeer, HYDRA_CLIENT)
    \/ recv_json(ClientPeer)
    \/ _receive_loop(ClientPeer)
    \/ disconnect(ClientPeer)

SpecConv == Init /\ [][NextConv]_vars

\* The receive loop of the router under every kind of inbound frames
NextWire == handle_requests_frames \/ await_recv

SpecWire == Init /\ [][NextWire]_vars

\* The router between the client and the server of the end-to-end test;
\* the scenario is over well within client_timeout, so the clock stands
NextE2E ==
    \/ \E p \in Cast : \E client_type \in CastTypes(p) : connect(p, client_type)
    \/ \E p \in Cast : _heartbeat_loop(p)
    \/ \E r \in RequestIds : client_request(r)
    \/ handle_requests_wire
    \/ await_recv
    \/ \E p \in Cast : _receive_loop(p)

\* asyncio runs every task that is ready: the router's receive loop and each
\* peer's receive loop take the frames that are waiting for them
SpecE2E ==
    /\ Init
    /\ [][NextE2E]_vars
    /\ WF_vars(handle_requests_wire)
    /\ WF_vars(await_recv)
    /\ \A p \in Cast : WF_vars(_receive_loop(p))

\* A client that uses send_command, the router and a server: the client asks
\* for a square, which the server answers if it has connected and the
\* router refuses if not; a call times out at any moment, the server may
\* answer a request twice, and the client may disconnect.  The router keeps
\* up with the peers: the tasks and the applications send when it has taken
\* what was sent before.
CommandTypes(p) == IF p = ClientPeer THEN HYDRA_CLIENT ELSE HYDRA_SERVER

NextCmd ==
    \/ \E p \in Cast : connect(p, CommandTypes(p))
    \/ wire_in = <<>> /\ \E p \in Cast : _heartbeat_loop(p)
    \/ send_command(ClientPeer, SQUARE_REQUEST)
    \/ wire_in = <<>> /\ send_command_sent(ClientPeer)
    \/ send_command_timeout(ClientPeer)
    \/ send_message_again(ServerPeer)
    \/ handle_requests_wire
    \/ await_recv
    \/ \E p \in Cast : _receive_loop(p)
    \/ disconnect(ClientPeer)

SpecCmd == Init /\ [][NextCmd]_vars

\* Two clients and the server: the first client sends commands, which may
\* time out; the server's replies are broadcast to both clients
OtherClient == "p3"
BroadcastTypes(p) == IF p = ServerPeer THEN HYDRA_SERVER ELSE HYDRA_CLIENT

NextBcast ==
    \/ \E p \in IDs : connect(p, BroadcastTypes(p))
    \/ wire_in = <<>> /\ \E p \in IDs : peer[p].heartbeats = 0 /\ _heartbeat_loop(p)
    \/ send_command(ClientPeer, SQUARE_REQUEST)
    \/ wire_in = <<>> /\ send_command_sent(ClientPeer)
    \/ send_command_timeout(ClientPeer)
    \/ handle_requests_wire
    \/ await_recv
    \/ \E p \in IDs : _receive_loop(p)

SpecBcast == Init /\ [][NextBcast]_vars

\* A client and a server that send one envelope after another, heartbeats
\* among them, through the router
NextOrder ==
    \/ \E p \in Cast : connect(p, CommandTypes(p))
    \/ \E p \in Cast : send_message_at(p)
    \/ handle_requests_wire
    \/ await_recv
    \/ \E p \in Cast : _receive_loop(p)

SpecOrder == Init /\ [][NextOrder]_vars

\* ------------------------------------------------------------------------
\* Vocabulary of the properties
\* ------------------------------------------------------------------------
ClientRoles == {HYDRA_CLIENT, SIMPLE_CLIENT}
ServerRoles == {HYDRA_SERVER, SIMPLE_SERVER}

\* the receive loop is at the end of an iteration
Iteration == inbound # Nothing
\* the step is one iteration of the receive loop
IterationStep == inbound = Nothing /\ inbound' # Nothing

\* number of send_multipart calls of the iteration addressed to id
SendsTo(id) ==
    BagCardinality([e \in {x \in BagToSet(sent) : x.to = id} |-> sent[e]])

\* the iteration handles a client-role envelope that is forwarded or refused
ClientRequest ==
    /\ Iteration
    /\ inbound.message.sender \in ClientRoles
    /\ inbound.message.elem \notin {HEARTBEAT, CLIENT_REGISTRY_REQUEST}

\* the iteration handles a server-role envelope that is broadcast
ServerBroadcast ==
    /\ Iteration
    /\ inbound.message.sender \in ServerRoles
    /\ inbound.message.elem # HEARTBEAT

\* ------------------------------------------------------------------------
\* C1 as claimed: a client-role envelope (not heartbeat, not registry
\* request) dispatched while a server slot is set yields exactly one send,
\* addressed to the server identity, and nothing is sent to the sender.
\* ------------------------------------------------------------------------
C1_ForwardNothingToSender ==
    (ClientRequest /\ dispatched.server_id # None) =>
        /\ BagCardinality(sent) = 1
        /\ SendsTo(dispatched.server_id) = 1
        /\ SendsTo(inbound.identity) = 0

\* C1 as amended: exactly one send, addressed to the server identity;
\* nothing is sent to the sender unless the sender identity is itself the
\* server slot.
C1_ForwardToServer ==
    (ClientRequest /\ dispatched.server_id # None) =>
        /\ BagCardinality(sent) = 1
        /\ SendsTo(dispatched.server_id) = 1
        /\ (inbound.identity # dispatched.server_id => SendsTo(inbound.identity) = 0)

C1_Witness ==
    /\ ClientRequest
    /\ dispatched.server_id # None
    /\ inbound.identity # dispatched.server_id
    /\ SendsTo(dispatched.server_id) = 1

\* ------------------------------------------------------------------------
\* C2 as claimed: once the first envelope of an identity that declares
\* either server role (HydraServer or SimpleServer) has been processed, the
\* identity is the server slot: has_server() holds, the registry data
\* reports it with is_server, and client requests are forwarded to it.
\* ------------------------------------------------------------------------
C2_EitherServerRoleTakesSlot ==
    [][(/\ IterationStep
        /\ inbound'.identity \notin DOMAIN clients
        /\ inbound'.message.sender \in ServerRoles)
       => (/\ server_id' = inbound'.identity
           /\ has_server(Registry(clients', server_id'))
           /\ get_registry_data(Registry(clients', server_id'))[inbound'.identity].is_server
           /\ _forward_to_server(Registry(clients', server_id'), inbound'.message)
                = SetToBag({Send(inbound'.identity, inbound'.message)}))]_vars

\* ------------------------------------------------------------------------
\* C4: a client-role envelope (not heartbeat, not registry request)
\* dispatched while no server slot is set yields exactly one send, to the
\* sender, with sender HydraRouter, elem error, data.error
\* no_server_connected, data.original_request the request's elem and the
\* request's request_id; the registry is as it was at dispatch.
\* ------------------------------------------------------------------------
C4_NoServerError ==
    (ClientRequest /\ dispatched.server_id = None) =>
        /\ BagCardinality(sent) = 1
        /\ SendsTo(inbound.identity) = 1
        /\ \A e \in BagToSet(sent) :
              /\ e.msg.sender = HYDRA_ROUTER
              /\ e.msg.elem = ERROR
              /\ e.msg.data.error = NO_SERVER_CONNECTED
              /\ e.msg.data.original_request = inbound.message.elem
              /\ e.msg.request_id = Get(inbound.message, "request_id")
        /\ Registry(clients, server_id) = dispatched

C4_Witness ==
    /\ ClientRequest
    /\ dispatched.server_id = None
    /\ "request_id" \in DOMAIN inbound.message
    /\ SendsTo(inbound.identity) = 1

\* ------------------------------------------------------------------------
\* C5 as claimed: a server-role envelope other than heartbeat yields exactly
\* one send to every identity registered with a client role at dispatch and
\* different from the sender, none to the sender, and nothing at all when
\* there is no such client.
\* ------------------------------------------------------------------------
ClientsAtDispatch ==
    {id \in DOMAIN dispatched.clients :
        dispatched.clients[id].client_type \in ClientRoles} \ {inbound.identity}

NonServersAtDispatch ==
    {id \in DOMAIN dispatched.clients :
        dispatched.clients[id].client_type \notin ServerRoles} \ {inbound.identity}

Targets == {e.to : e \in BagToSet(sent)}

C6_TargetsAreClientRoles ==
    ServerBroadcast =>
        /\ Targets = ClientsAtDispatch
        /\ \A id \in Targets :
              dispatched.clients[id].client_type
                  \notin {HYDRA_SERVER, SIMPLE_SERVER, HYDRA_ROUTER}

\* C6 as amended: the targets are exactly the identities whose registered
\* role is not a server role (HydraClient, SimpleClient or HydraRouter),
\* minus the sender; an identity registered as HydraServer or SimpleServer
\* is never a target.
C6_TargetsAreNonServers ==
    ServerBroadcast =>
        /\ Targets = NonServersAtDispatch
        /\ \A id \in Targets : dispatched.clients[id].client_type \notin ServerRoles

C6_Witness ==
    /\ ServerBroadcast
    /\ Targets # {}
    /\ \E id \in DOMAIN dispatched.clients :
          /\ id # inbound.identity
          /\ dispatched.clients[id].client_type \in ServerRoles

\* ------------------------------------------------------------------------
\* C7 as claimed: every heartbeat, whatever sender role it declares, yields
\* no send and leaves the sender's last_heartbeat at the current time; and
\* last_heartbeat of an entry never decreases.
\* ------------------------------------------------------------------------
HeartbeatStep == IterationStep /\ inbound'.message.elem = HEARTBEAT

Monotone ==
    \A id \in DOMAIN clients \cap DOMAIN clients' :
        clients'[id].last_heartbeat >= clients[id].last_heartbeat

NewEntry(role, t) == [client_type |-> role, last_heartbeat |-> t]

C8_EnsureRegisteredTouches ==
    [][IterationStep =>
         LET id == inbound'.identity
         IN  /\ id \notin DOMAIN clients
                  => dispatched'.clients[id] = NewEntry(inbound'.message.sender, now)
             /\ id \in DOMAIN clients
                  => /\ clients'[id].client_type = clients[id].client_type
                     /\ clients'[id].last_heartbeat = now']_vars

\* C8 as amended: before routing, an unknown sender is registered with the
\* role its envelope declares and the current time; a known sender is left
\* as it is (not touched).  Only a heartbeat that declares a client or
\* server role refreshes last_heartbeat of a known peer: after any other
\* envelope its last_heartbeat is what it was before, so the peer is pruned
\* client_timeout after its last heartbeat or registration.
C8_EnsureRegistered ==
    [][IterationStep =>
         LET id == inbound'.identity
             refreshing == /\ inbound'.message.elem = HEARTBEAT
                           /\ inbound'.message.sender \in ClientRoles \cup ServerRoles
         IN  /\ id \notin DOMAIN clients
                  => /\ dispatched'.clients[id] = NewEntry(inbound'.message.sender, now)
                     /\ clients'[id].last_heartbeat = now'
             /\ id \in DOMAIN clients
                  => /\ dispatched'.clients[id] = clients[id]
                     /\ clients'[id].client_type = clients[id].client_type
                     /\ clients'[id].last_heartbeat
                          = IF refreshing THEN now' ELSE clients[id].last_heartbeat
             /\ \A other \in IDs \ {id} :
                    /\ other \in DOMAIN clients' <=> other \in DOMAIN clients
                    /\ other \in DOMAIN clients => clients'[other] = clients[other]]_vars

\* a known peer has sent an envelope that is no heartbeat and its entry
\* still carries an older last_heartbeat
C8_Witness ==
    /\ Iteration
    /\ inbound.message.elem # HEARTBEAT
    /\ clients[inbound.identity].last_heartbeat < now
    /\ dispatched.clients[inbound.identity] = clients[inbound.identity]

\* ------------------------------------------------------------------------
\* C9 as claimed: a client_registry_request, whatever role its sender
\* declares, yields exactly one send, to the sender, with sender
\* HydraRouter, elem client_registry_response, data the registry snapshot
\* and the request's request_id; it is neither forwarded nor broadcast.
\* ------------------------------------------------------------------------
RegistryReply ==
    /\ BagCardinality(sent) = 1
    /\ SendsTo(inbound.identity) = 1
    /\ \A e \in BagToSet(sent) :
          /\ e.msg.sender = HYDRA_ROUTER
          /\ e.msg.elem = CLIENT_REGISTRY_RESPONSE
          /\ DOMAIN e.msg.data = DOMAIN clients
          /\ \A id \in DOMAIN clients :
                /\ e.msg.data[id].client_type = clients[id].client_type
                /\ e.msg.data[id].last_heartbeat = clients[id].last_heartbeat
                /\ e.msg.data[id].is_server = (id = server_id)
          /\ e.msg.request_id = Get(inbound.message, "request_id")

C9_RegistryReplyToAnyRole ==
    (Iteration /\ inbound.message.elem = CLIENT_REGISTRY_REQUEST) => RegistryReply

\* C9 as amended: a client_registry_request whose sender declares a client
\* role (HydraClient or SimpleClient) yields exactly that one reply and is
\* neither forwarded nor broadcast; one that declares a server role is
\* broadcast like any other server envelope, and one that declares
\* HydraRouter yields nothing.
C9_RegistryReplyToClientRole ==
    (Iteration /\ inbound.message.elem = CLIENT_REGISTRY_REQUEST) =>
        /\ inbound.message.sender \in ClientRoles => RegistryReply
        /\ inbound.message.sender \in ServerRoles =>
              /\ Targets = NonServersAtDispatch
              /\ \A e \in BagToSet(sent) : e.msg = inbound.message
        /\ inbound.message.sender = HYDRA_ROUTER => sent = EmptyBag

C9_Witness ==
    /\ Iteration
    /\ inbound.message.elem = CLIENT_REGISTRY_REQUEST
    /\ inbound.message.sender \in ClientRoles
    /\ "request_id" \in DOMAIN inbound.message
    /\ server_id # None
    /\ Cardinality(DOMAIN clients) = 3
    /\ SendsTo(inbound.identity) = 1

\* ------------------------------------------------------------------------
\* C10 as claimed: when S1 is the server slot and a different identity S2
\* registers with a server role, then once that envelope is processed S2 is
\* the forward target and S1 is not; S1 stays in the registry and is
\* reported with is_server false.
\* ------------------------------------------------------------------------
C10_LastServerWins ==
    [][(/\ IterationStep
        /\ server_id # None
        /\ inbound'.identity # server_id
        /\ inbound'.identity \notin DOMAIN clients
        /\ inbound'.message.sender \in ServerRoles)
       => (/\ server_id' = inbound'.identity
           /\ \A m \in Envelopes :
                 _forward_to_server(Registry(clients', server_id'), m)
                     = SetToBag({Send(inbound'.identity, m)})
           /\ server_id \in DOMAIN clients'
           /\ ~get_registry_data(Registry(clients', server_id'))[server_id].is_server)]_vars

\* ------------------------------------------------------------------------
\* C3 as claimed: with a SimpleServer and a SimpleClient connected, a
\* square_request the client sends with request_id r reaches the server,
\* the client receives a square_response with request_id r, and the client
\* never receives an error envelope with request_id r.
\* ------------------------------------------------------------------------
Requested(r) ==
    /\ r \in peer[ClientPeer].requested
    /\ peer[ClientPeer].client_type = SIMPLE_CLIENT
    /\ peer[ServerPeer].client_type = SIMPLE_SERVER

Received(p, elem, r) ==
    \E m \in peer[p].received : Get(m, "elem") = elem /\ Get(m, "request_id") = r

C3_HappyPath ==
    \A r \in RequestIds :
        /\ Requested(r) ~> Received(ServerPeer, SQUARE_REQUEST, r)
        /\ Requested(r) ~> Received(ClientPeer, SQUARE_RESPONSE, r)
        /\ [](Requested(r) => ~Received(ClientPeer, ERROR, r))

\* ------------------------------------------------------------------------
\* C11: a step of prune or remove that deletes the identity in the server
\* slot empties the slot in that same step, so the slot never names an
\* identity that is not registered; the slot stays empty until an iteration
\* of the receive loop registers an identity that declares a server role;
\* and every client request (not heartbeat, not registry request)
\* dispatched while the slot is empty gets exactly one send, the
\* no_server_connected error addressed to its sender, and is not forwarded.
\* ------------------------------------------------------------------------
C11_DeletedServerClearsSlot ==
    [][/\ (server_id # None /\ server_id \notin DOMAIN clients') => server_id' = None
       /\ server_id' # None => server_id' \in DOMAIN clients'
       /\ (server_id = None /\ server_id' # None) =>
              /\ IterationStep
              /\ inbound'.message.sender \in ServerRoles
              /\ inbound'.identity = server_id'
       /\ (ClientRequest' /\ dispatched'.server_id = None) =>
              /\ BagCardinality(sent') = 1
              /\ \A e \in BagToSet(sent') :
                    /\ e.to = inbound'.identity
                    /\ e.msg.elem = ERROR
                    /\ e.msg.data.error = NO_SERVER_CONNECTED]_vars

\* the prune loop has just deleted the identity that was the server slot
C11_Witness ==
    /\ pruning # Nothing
    /\ pruning.before.server_id # None
    /\ pruning.before.server_id \in pruning.removed_clients
    /\ server_id = None
    /\ clients # EmptyDict

\* ------------------------------------------------------------------------
\* C19: a prune removes exactly the entries with
\* now - last_heartbeat > client_timeout (an entry exactly client_timeout
\* old stays), returns exactly the identities it removed, and leaves the
\* role and last_heartbeat of every other entry as they were.
\* ------------------------------------------------------------------------
C19_PruneExactly ==
    pruning # Nothing =>
        /\ pruning.removed_clients =
              {id \in DOMAIN pruning.before.clients :
                  now - pruning.before.clients[id].last_heartbeat > ClientTimeout}
        /\ DOMAIN clients = DOMAIN pruning.before.clients \ pruning.removed_clients
        /\ \A id \in DOMAIN clients : clients[id] = pruning.before.clients[id]

\* a prune that removed an entry and kept one exactly client_timeout old
C19_Witness ==
    /\ pruning # Nothing
    /\ pruning.removed_clients # {}
    /\ \E id \in DOMAIN clients : now - clients[id].last_heartbeat = ClientTimeout

\* ------------------------------------------------------------------------
\* C12: an inbound message whose frame count is not two, whose payload is
\* not a JSON object, or whose envelope fails validation yields no send and
\* leaves the registry as it was (nobody registered, no heartbeat
\* refreshed), and the receive loop goes on to its next recv_multipart;
\* conversely an envelope that is routed passed validation: its sender is a
\* valid client type and its elem is not blank.
\* ------------------------------------------------------------------------
DiscardedIteration == inbound # Nothing /\ "discarded" \in DOMAIN inbound
AcceptedIteration == inbound # Nothing /\ "message" \in DOMAIN inbound

C12_MalformedIsDropped ==
    [][(inbound = Nothing /\ inbound' # Nothing) =>
          /\ DiscardedIteration' =>
                /\ sent' = EmptyBag
                /\ clients' = clients
                /\ server_id' = server_id
                /\ (ENABLED await_recv)'
          /\ AcceptedIteration' =>
                /\ validate_router_message(JDict(Json(inbound'.message)))
                /\ inbound'.message.sender \in VALID_CLIENT_TYPES
                /\ strip(inbound'.message.elem) # ""]_vars

\* a JSON object that failed validation was dropped while identities are
\* registered, one of them the sender of the dropped frames
C12_Witness ==
    /\ DiscardedIteration
    /\ Len(inbound.discarded) = 2
    /\ isinstance(inbound.discarded[2], "dict")
    /\ inbound.discarded[1] \in DOMAIN clients
    /\ sent = EmptyBag

\* ------------------------------------------------------------------------
\* C13: an envelope the router forwards to the server or broadcasts to the
\* clients is sent exactly as it was received, every field of it, request_id
\* and keys the schema does not know included; a reply the router makes
\* itself (registry response, no-server error) carries the request_id of
\* the request it answers.
\* ------------------------------------------------------------------------
RouterReply ==
    /\ inbound.message.sender \in ClientRoles
    /\ \/ inbound.message.elem = CLIENT_REGISTRY_REQUEST
       \/ inbound.message.elem # HEARTBEAT /\ dispatched.server_id = None

C13_CarriedUnchanged ==
    AcceptedIteration =>
        /\ (ClientRequest /\ dispatched.server_id # None) =>
              /\ sent # EmptyBag
              /\ \A e \in BagToSet(sent) : e.msg = inbound.message
        /\ ServerBroadcast =>
              \A e \in BagToSet(sent) : e.msg = inbound.message
        /\ RouterReply =>
              /\ sent # EmptyBag
              /\ \A e \in BagToSet(sent) :
                    Get(e.msg, "request_id") = Get(inbound.message, "request_id")

\* an envelope with a request_id and a key the schema does not know was
\* broadcast
C13_Witness ==
    /\ AcceptedIteration
    /\ ServerBroadcast
    /\ {"trace", "request_id"} \subseteq DOMAIN inbound.message
    /\ BagCardinality(sent) >= 2
    /\ \A e \in BagToSet(sent) : "trace" \in DOMAIN e.msg

\* ------------------------------------------------------------------------
\* C14 as claimed: every envelope the router sends (forwarded, broadcast,
\* registry response, no-server error) is one validate_router_message
\* accepts; an optional field without a value is left out, never written
\* as null, also in the reply to a request that carried no request_id.
\* ------------------------------------------------------------------------
C14_EmittedEnvelopesValidate ==
    AcceptedIteration =>
        \A e \in BagToSet(sent) :
            /\ validate_router_message(JDict(Json(e.msg)))
            /\ \A k \in DOMAIN e.msg : ~isinstance(Json(e.msg)[k], "null")

\* ------------------------------------------------------------------------
\* send_command and the pending_requests table
\* ------------------------------------------------------------------------
\* The request_ids of the send_command calls of the client
Calls == DOMAIN peer[ClientPeer].commands

\* The envelopes of the client that carry request_id r and are on their way
\* to the router
OnTheWire(queue, r) ==
    {i \in 1..Len(queue) :
        /\ queue[i].identity = ClientPeer
        /\ Get(queue[i].message, "request_id") = r}

\* A step of the receive loop of peer p
ReceiveStep(p) ==
    /\ peer[p].connected /\ peer'[p].connected
    /\ wire_out[p] # <<>>
    /\ wire_out'[p] = Tail(wire_out[p])

\* C15: send_command has registered the future of its request_id when the
\* request goes on the socket; a step of the receive loop on an envelope whose
\* request_id is pending sets that envelope as the result of the future and
\* takes the entry out of pending_requests, and hands the envelope to no
\* handler; no future has its result set twice.
C15_ReplyCompletesPending ==
    [][ /\ \A r \in CommandIds :
              OnTheWire(wire_in', r) # {} /\ OnTheWire(wire_in, r) = {}
              => /\ r \in peer[ClientPeer].pending_requests
                 /\ r \in peer'[ClientPeer].pending_requests
        /\ \A r \in peer[ClientPeer].pending_requests :
              ReceiveStep(ClientPeer)
                  /\ Get(Head(wire_out[ClientPeer]), "request_id") = r
              => /\ r \notin peer'[ClientPeer].pending_requests
                 /\ peer'[ClientPeer].commands[r].state = "result"
                 /\ peer'[ClientPeer].commands[r].response
                        = Head(wire_out[ClientPeer])
                 /\ peer'[ClientPeer].handled = peer[ClientPeer].handled
        /\ \A r \in DOMAIN peer'[ClientPeer].commands :
              peer'[ClientPeer].commands[r].set_results <= 1
      ]_vars

\* A send_command call has returned the server's response
C15_Witness ==
    \E r \in Calls :
        /\ peer[ClientPeer].commands[r].state = "result"
        /\ peer[ClientPeer].commands[r].response["elem"] = SQUARE_RESPONSE
        /\ r \notin peer[ClientPeer].pending_requests
        /\ peer[ClientPeer].handled = {}

\* C16: a step of the receive loop on an envelope whose request_id belongs
\* to a send_command call that has returned its response or has timed out
\* completes no future and hands the envelope to no handler.
C16_LateReplyDiscarded ==
    [][ \A r \in Calls :
            /\ ReceiveStep(ClientPeer)
            /\ Get(Head(wire_out[ClientPeer]), "request_id") = r
            /\ peer[ClientPeer].commands[r].state \in {"result", "timeout"}
            => /\ peer'[ClientPeer].handled = peer[ClientPeer].handled
               /\ peer'[ClientPeer].commands = peer[ClientPeer].commands
               /\ peer'[ClientPeer].pending_requests
                      = peer[ClientPeer].pending_requests
      ]_vars

\* A send_command call that has finished: it returned the response, raised
\* the timeout error, or raised what send_message raised
Finished == {"result", "timeout", "failed"}

SentBy(queue, p) == Cardinality({i \in 1..Len(queue) : queue[i].identity = p})

\* C18: disconnect cancels the future of every pending request and leaves
\* pending_requests empty and connected false; from then on, while the client
\* stays disconnected, its heartbeat task sends nothing and its receive task
\* takes no envelope, completes no future and calls no handler.
C18_DisconnectCancelsAll ==
    [][ /\ peer[ClientPeer].connected /\ ~peer'[ClientPeer].connected
           => /\ peer'[ClientPeer].pending_requests = {}
              /\ \A r \in peer[ClientPeer].pending_requests :
                    peer'[ClientPeer].commands[r].state = "cancelled"
        /\ ~peer[ClientPeer].connected /\ ~peer'[ClientPeer].connected
           => /\ peer'[ClientPeer].pending_requests = {}
              /\ peer'[ClientPeer].heartbeats = peer[ClientPeer].heartbeats
              /\ SentBy(wire_in', ClientPeer) <= SentBy(wire_in, ClientPeer)
              /\ peer'[ClientPeer].received = peer[ClientPeer].received
              /\ peer'[ClientPeer].handled = peer[ClientPeer].handled
              /\ \A r \in Calls :
                    peer'[ClientPeer].commands[r] = peer[ClientPeer].commands[r]
      ]_vars

\* The client has disconnected with a call waiting for its response, and an
\* envelope for it has come from the router since
C18_Witness ==
    /\ ~peer[ClientPeer].connected
    /\ peer[ClientPeer].heartbeats >= 1
    /\ \E r \in Calls : peer[ClientPeer].commands[r].state = "cancelled"
    /\ wire_out[ClientPeer] # <<>>

\* ------------------------------------------------------------------------
\* The prune loop over time
\* ------------------------------------------------------------------------
\* The receive loop is handling an envelope of peer id
Speaks(id) == Iteration /\ inbound.identity = id

\* Peer id is registered and silent, and its entry is older than
\* client_timeout before the clock of the model stops
Expiring(id) ==
    /\ id \in DOMAIN clients
    /\ ~Speaks(id)
    /\ clients[id].last_heartbeat + ClientTimeout < MaxTime

C21_HeartbeatingPeerStays ==
    [][ /\ HeartbeatStep
           /\ inbound'.identity = SteadyPeer
           /\ inbound'.message.sender \in ClientRoles \cup ServerRoles
           => /\ SteadyPeer \in DOMAIN clients'
              /\ clients'[SteadyPeer].last_heartbeat = now
        /\ SteadyPeer \in DOMAIN clients
           => /\ SteadyPeer \in DOMAIN clients'
              /\ clients'[SteadyPeer].client_type = clients[SteadyPeer].client_type
              /\ pruning' # Nothing => SteadyPeer \notin pruning'.removed_clients
      ]_vars

\* The prune loop removes another peer while the heartbeating peer, whose
\* entry is client_timeout old and was refreshed after it was made, stays
C21_Witness ==
    /\ pruning # Nothing
    /\ pruning.removed_clients # {}
    /\ SteadyPeer \in DOMAIN clients
    /\ clients[SteadyPeer].last_heartbeat > 0
    /\ now - clients[SteadyPeer].last_heartbeat = ClientTimeout

\* ------------------------------------------------------------------------
\* Sends that fail and sends that wait
\* ------------------------------------------------------------------------
\* the iteration has made every send it had to make
SendsMade == Iteration /\ inbound.pending = {}

\* C22: in a broadcast no target is sent the envelope twice and the registry
\* stays as the broadcast found it; when the broadcast is over, every target
\* the socket refused has been sent nothing, every other target has been
\* sent the envelope exactly once, and the receive loop goes round.
C22_RefusedTargetIsSkipped ==
    ServerBroadcast =>
        /\ \A id \in IDs : SendsTo(id) <= 1
        /\ \A e \in BagToSet(sent) : e.msg = inbound.message
        /\ clients = dispatched.clients
        /\ server_id = dispatched.server_id
        /\ SendsMade =>
              /\ \A id \in NonServersAtDispatch :
                    SendsTo(id) = IF id \in inbound.refused THEN 0 ELSE 1
              /\ ENABLED await_recv_sent

\* A broadcast to two clients is over: the socket refused one of them and
\* the other has the envelope
C22_Witness ==
    /\ ServerBroadcast
    /\ SendsMade
    /\ \E id, other \in NonServersAtDispatch :
          /\ id \in inbound.refused /\ SendsTo(id) = 0
          /\ other \notin inbound.refused /\ SendsTo(other) = 1

\* C23: every iteration of the receive loop comes to its end, whatever
\* targets are not ready: a send that waits for its target is given up after
\* a time, and the loop goes on to the next frames.
C23_LoopGoesOn == Iteration ~> ~Iteration

\* ------------------------------------------------------------------------
\* start and shutdown
\* ------------------------------------------------------------------------
\* the step is a call of shutdown, of start
ShutdownStep == router'.shutdowns = router.shutdowns + 1
StartStep == router'.starts = router.starts + 1

\* C24: a call of shutdown on a running router clears running, sets the
\* event and cancels the receive task; a call on a router that is not
\* running, one made while an earlier call has not returned included,
\* changes nothing; no socket is closed, no context terminated and no task
\* cancelled more than once, and when shutdown has returned every socket and
\* context made has been closed and terminated and every task created has
\* been cancelled; while running is not set nothing is sent and the registry
\* does not change.
C24_ShutdownIsIdempotent ==
    [][ /\ ShutdownStep /\ router.running
           => /\ ~router'.running
              /\ router'.shutdown_event
              /\ router'.cancels = router.cancels + 1
        /\ ShutdownStep /\ ~router.running
           => /\ [router' EXCEPT !.shutdowns = router.shutdowns] = router
              /\ <<clients, server_id, sent, inbound, pruning>>'
                    = <<clients, server_id, sent, inbound, pruning>>
        /\ router'.closes <= router'.sockets
        /\ router'.terms <= router'.sockets
        /\ router'.cancels <= router'.spawned
        /\ ~router'.running /\ router'.shutting = ""
           => /\ router'.socket = None /\ router'.context = None
              /\ router'.closes = router'.sockets
              /\ router'.terms = router'.sockets
              /\ router'.cancels = router'.spawned
        /\ ~router.running
           => /\ clients' = clients
              /\ server_id' = server_id
              /\ sent' = sent \/ sent' = EmptyBag
      ]_vars

\* shutdown has returned on a router that had registered a peer, and has
\* been called once more since
C24_Witness ==
    /\ ~router.running
    /\ router.shutting = ""
    /\ router.shutdowns >= 2
    /\ router.closes = 1 /\ router.terms = 1 /\ router.cancels = 2
    /\ clients # EmptyDict

\* C25: a call of start whose bind fails raises ConnectionError, leaves
\* running clear, the socket closed and the context terminated, and creates
\* no task; a call on a running router changes nothing: no bind, no task.
C25_StartFailsOrIsNoOp ==
    [][ /\ StartStep /\ ~router.running /\ router'.raised
           => /\ ~router'.running
              /\ router'.socket = None /\ router'.context = None
              /\ router'.closes = router.closes + 1
              /\ router'.terms = router.terms + 1
              /\ router'.spawned = router.spawned
        /\ StartStep /\ router.running
           => /\ [router' EXCEPT !.starts = router.starts] = router
              /\ router'.binds = router.binds
              /\ router'.spawned = router.spawned
        /\ router'.running => router'.socket # None /\ router'.context # None
        /\ router'.spawned <= 2 * router'.binds
      ]_vars

\* start has failed to bind, has then started the router, and has been
\* called once more on the running router
C25_Witness ==
    /\ router.running
    /\ router.starts = 3
    /\ router.binds = 2
    /\ router.closes = 1 /\ router.terms = 1
    /\ router.spawned = 2

\* ------------------------------------------------------------------------
\* Order
\* ------------------------------------------------------------------------
\* the envelopes of a queue of the router's socket that peer id has sent
Waiting(queue, id) == {i \in 1..Len(queue) : queue[i].identity = id}

\* the positions in a peer's queue of the envelopes a server sent
FromServer(queue) == {i \in 1..Len(queue) : queue[i].sender \in ServerRoles}

\* C26: the envelope the receive loop takes is older than every envelope of
\* the same identity that is still waiting, heartbeats included; the
\* envelopes of the server that wait on a client's socket wait in the order
\* the server sent them, and the client's receive loop takes each of them
\* after every older one.
C26_OrderPerSender ==
    [][ /\ IterationStep
           => \A i \in Waiting(wire_in', inbound'.identity) :
                 wire_in'[i].message.timestamp > inbound'.message.timestamp
        /\ \A i, j \in FromServer(wire_out'[ClientPeer]) :
              i < j => wire_out'[ClientPeer][i].timestamp
                          < wire_out'[ClientPeer][j].timestamp
        /\ ReceiveStep(ClientPeer) /\ 1 \in FromServer(wire_out[ClientPeer])
           => \A m \in peer[ClientPeer].received :
                 m.sender \in ServerRoles
                 => m.timestamp < Head(wire_out[ClientPeer]).timestamp
      ]_vars

\* The client has taken two envelopes of the server, and the router has
\* handled a heartbeat of the server between them
C26_Witness ==
    /\ \E m, n \in peer[ClientPeer].received :
          /\ m.sender \in ServerRoles /\ n.sender \in ServerRoles
          /\ m.timestamp + 1 < n.timestamp
    /\ ServerPeer \in DOMAIN clients
    /\ clients[ServerPeer].last_heartbeat > 0

\* ------------------------------------------------------------------------
\* A sender that declares another type than the registry holds for it
\* ------------------------------------------------------------------------
\* the type the registry held for the sender when the envelope was routed
RecordedType == dispatched.clients[inbound.identity].client_type

\* the iteration handles an envelope, not a heartbeat, whose sender field
\* differs from the type recorded for its identity
Disagrees ==
    /\ Iteration
    /\ inbound.message.elem # HEARTBEAT
    /\ RecordedType # inbound.message.sender

\* C27: an envelope whose sender field differs from the recorded type of
\* its identity is routed by the sender field: declared under a server type
\* by a registered client, it is sent once to every other identity that is
\* not recorded as a server and to nobody else; declared under a client type
\* by a registered server, it is sent once to the identity in the server
\* slot and to nobody else (with the slot empty the sender gets the
\* no-server error); the registry keeps every recorded type and the slot.
C27_RoutedByDeclaredRole ==
    Disagrees =>
        /\ RecordedType \in ClientRoles /\ inbound.message.sender \in ServerRoles
           => /\ Targets = NonServersAtDispatch
              /\ \A e \in BagToSet(sent) : e.msg = inbound.message /\ sent[e] = 1
        /\ RecordedType \in ServerRoles /\ inbound.message.sender \in ClientRoles
              /\ inbound.message.elem # CLIENT_REGISTRY_REQUEST
           => IF has_server(dispatched)
              THEN sent = SetToBag({Send(dispatched.server_id, inbound.message)})
              ELSE /\ Targets = {inbound.identity}
                   /\ \A e \in BagToSet(sent) : e.msg.elem = ERROR /\ sent[e] = 1
        /\ DOMAIN clients = DOMAIN dispatched.clients
        /\ \A id \in DOMAIN clients :
              clients[id].client_type = dispatched.clients[id].client_type
        /\ server_id = dispatched.server_id

\* A registered client declares a server type, and its envelope goes to
\* another client while a server holds the slot
C27_Witness ==
    /\ Disagrees
    /\ RecordedType \in ClientRoles
    /\ inbound.message.sender \in ServerRoles
    /\ Targets # {}
    /\ has_server(dispatched)
    /\ dispatched.server_id # inbound.identity

\* ------------------------------------------------------------------------
\* Conversions between ZMQMessage and the router format
\* ------------------------------------------------------------------------
RoundTrip == call # Nothing /\ call.function = "round_trip"

\* C28: converting a ZMQMessage to the router format and back gives the
\* message_type, timestamp, client_id, request_id and data it had; the router
\* format has the peer's client_type as sender and leaves out each optional
\* field that the message does not have.
C28_RoundTrip ==
    RoundTrip =>
        /\ call.result = Some(call.message)
        /\ call.router_message.sender = call.client_type
        /\ \A key \in {"client_id", "request_id", "data"} :
              call.message[key] = NoValue => key \notin DOMAIN call.router_message

\* The elem of an envelope in router format is that of no message type
UnknownElem(router_message) ==
    "elem" \notin DOMAIN router_message \/ router_message.elem \notin MsgType

FromRouterFormat == call # Nothing /\ call.function = "_convert_from_router_format"

\* C29: _convert_from_router_format raises for an envelope whose elem is that
\* of no message type, and a ZMQMessage it returns has the message type of
\* the envelope's elem; a step of the receive loop on such an envelope calls
\* no handler, and a handler is only ever called with the message type of
\* the envelope received.
C29_UnknownElemIsRefused ==
    [][/\ FromRouterFormat' =>
            /\ UnknownElem(call'.router_message) => call'.result = NoValue
            /\ call'.result # NoValue =>
                  call'.result[1].message_type = call'.router_message.elem
       /\ \A p \in Cast :
            ReceiveStep(p) =>
              /\ UnknownElem(Head(wire_out[p])) => peer'[p].handled = peer[p].handled
              /\ \A h \in peer'[p].handled \ peer[p].handled :
                    ~UnknownElem(Head(wire_out[p]))
                    /\ h.message_type = Head(wire_out[p]).elem]_vars

\* A direct call has raised for an elem of no message type, and the receive
\* loop has received such an envelope and called no handler
C29_Witness ==
    /\ FromRouterFormat
    /\ UnknownElem(call.router_message)
    /\ call.result = NoValue
    /\ \E m \in peer[ClientPeer].received : UnknownElem(m)
    /\ peer[ClientPeer].handled = {}

\* ------------------------------------------------------------------------
\* MessageValidator
\* ------------------------------------------------------------------------
Validating == call # Nothing /\ call.function = "validate_router_message"

NonEmpty(j) == isinstance(j, "str") /\ ("len" \in DOMAIN j \/ j.str # "")
NonBlank(j) == isinstance(j, "str") /\ ("len" \in DOMAIN j \/ j.str \notin {"", " "})

WithinSizeCaps(m) ==
    /\ dumps(m) <= MAX_MESSAGE_SIZE
    /\ ("data" \in DOMAIN m /\ isinstance(m["data"], "dict")) =>
          dumps_data(m["data"].dict) <= MAX_DATA_SIZE

ValidSender(m) ==
    /\ {"sender", "elem"} \subseteq DOMAIN m
    /\ isinstance(m["sender"], "str")
    /\ m["sender"].str \in
          {"HydraClient", "HydraServer", "SimpleClient", "SimpleServer", "HydraRouter"}

\* C30 as claimed: validate_router_message accepts a message exactly if it is
\* a mapping with sender and elem, sender one of the five client types, elem
\* a non-empty string, data (when present) a mapping, timestamp (when
\* present) a number >= 0, client_id and request_id (when present) non-empty
\* strings, and within the size caps.
C30_AcceptsIffAsClaimed ==
    Validating =>
        (call.result <=>
            /\ isinstance(call.message, "dict")
            /\ LET m == call.message.dict
               IN  /\ ValidSender(m)
                   /\ NonEmpty(m["elem"])
                   /\ "data" \in DOMAIN m => isinstance(m["data"], "dict")
                   /\ "timestamp" \in DOMAIN m =>
                         isinstance(m["timestamp"], "num") /\ m["timestamp"].num >= 0
                   /\ \A key \in {"client_id", "request_id"} \cap DOMAIN m : NonEmpty(m[key])
                   /\ WithinSizeCaps(m))

\* C30: validate_router_message accepts a message exactly if it is a mapping
\* with sender and elem, sender one of the five client types, elem a string
\* that is not blank, data (when present) a mapping or null, timestamp (when
\* present) a number >= 0 or a boolean, client_id and request_id (when
\* present) strings that are not blank, and within the size caps; a key the
\* schema does not know matters to the size only, and the call changes
\* nothing of the router or of a peer.
C30_AcceptsIff ==
    [][Validating' =>
          /\ call'.result <=>
                /\ isinstance(call'.message, "dict")
                /\ LET m == call'.message.dict
                   IN  /\ ValidSender(m)
                       /\ NonBlank(m["elem"])
                       /\ "data" \in DOMAIN m =>
                             isinstance(m["data"], "dict") \/ isinstance(m["data"], "null")
                       /\ "timestamp" \in DOMAIN m =>
                             \/ isinstance(m["timestamp"], "bool")
                             \/ isinstance(m["timestamp"], "num") /\ m["timestamp"].num >= 0
                       /\ \A key \in {"client_id", "request_id"} \cap DOMAIN m :
                             NonBlank(m[key])
                       /\ WithinSizeCaps(m)
          /\ UNCHANGED <<clients, server_id, now, inbound, dispatched, sent, pruning,
                         router, wire_in, wire_out, peer>>]_vars

\* A message of exactly MAX_MESSAGE_SIZE bytes with a key the schema does not
\* know has been accepted
C30_Witness ==
    /\ Validating
    /\ call.result
    /\ "trace" \in DOMAIN call.message.dict
    /\ dumps(call.message.dict) = MAX_MESSAGE_SIZE

\* An envelope over a size cap: more than MAX_MESSAGE_SIZE bytes serialised,
\* or a data dict of more than MAX_DATA_SIZE bytes
OverSize(message) ==
    /\ isinstance(message, "dict")
    /\ \/ dumps(message.dict) > MAX_MESSAGE_SIZE
       \/ /\ "data" \in DOMAIN message.dict
          /\ isinstance(message.dict["data"], "dict")
          /\ dumps_data(message.dict["data"].dict) > MAX_DATA_SIZE

\* C31 as claimed: an envelope over a size cap is rejected and the error
\* reported is the size violation, whatever else is wrong with it; an
\* envelope exactly at a cap with nothing else wrong is accepted.
C31_OverSizeReportedFirst ==
    Validating =>
        /\ OverSize(call.message) =>
              ~call.result /\ call.error = "size exceeds maximum"
        /\ (call.error = "" /\ ~OverSize(call.message)) => call.result

\* ------------------------------------------------------------------------
\* ClientRegistry under direct calls
\* ------------------------------------------------------------------------
RegisterStep == Get(call', "function") = "register_client"

\* the registry but for the heartbeat timestamps
Observable(c, s) ==
    [ids |-> DOMAIN c, types |-> [id \in DOMAIN c |-> c[id].client_type], slot |-> s]

\* C32: a register_client call that follows directly on the same call
\* (same identity, same type) leaves the identities, the type of each and
\* the server slot as the first call left them; every register_client call
\* leaves exactly one entry for its identity and the other entries as they
\* were.
C32_RegisterIsIdempotent ==
    [][RegisterStep =>
          /\ call'.again => Observable(clients', server_id') = Observable(clients, server_id)
          /\ DOMAIN clients' = DOMAIN clients \cup {call'.client_id}
          /\ clients'[call'.client_id].client_type = call'.client_type
          /\ \A id \in DOMAIN clients \ {call'.client_id} : clients'[id] = clients[id]]_vars

\* A server registered twice in a row, the second time later than the first,
\* besides another entry
C32_Witness ==
    /\ Get(call, "function") = "register_client"
    /\ call.again
    /\ call.client_type = HYDRA_SERVER
    /\ server_id = call.client_id
    /\ clients[call.client_id].last_heartbeat = now
    /\ \E id \in DOMAIN clients : clients[id].last_heartbeat < now

\* a step that is no tick of the clock and leaves the method as the last called
TouchStep == Get(call', "function") = "update_heartbeat" /\ now' = now
PruneStep == Get(call', "function") = "prune_inactive_clients" /\ now' = now

\* C33: an update_heartbeat call on an identity the registry holds sets its
\* last_heartbeat to the time of the call and changes nothing else; on an
\* identity it does not hold (never registered, removed or pruned) it
\* changes nothing, so that it makes no entry and leaves the server slot.  A
\* prune call and an update_heartbeat call for the same entry run one after
\* the other, in either order: the entry is then absent, or present with the
\* heartbeat of the update_heartbeat call.
C33_TouchAndPruneSerialized ==
    [][/\ TouchStep =>
            LET id == call'.client_id
            IN  /\ id \notin DOMAIN clients =>
                      clients' = clients /\ server_id' = server_id
                /\ id \in DOMAIN clients =>
                      /\ clients' = [clients EXCEPT ![id].last_heartbeat = now]
                      /\ server_id' = server_id
       /\ (PruneStep /\ Get(call, "function") = "update_heartbeat") =>
            LET id == call.client_id
            IN  id \in DOMAIN clients' => clients'[id] = clients[id]
       /\ (TouchStep /\ Get(call, "function") = "prune_inactive_clients") =>
            LET id == call'.client_id
            IN  \/ id \notin DOMAIN clients'
                \/ id \in DOMAIN clients /\ clients'[id].last_heartbeat = now]_vars

\* update_heartbeat has come too late for an entry that the prune call
\* before it had removed, with the server slot empty since
C33_Witness ==
    /\ Get(call, "function") = "update_heartbeat"
    /\ call.client_id \notin DOMAIN clients
    /\ server_id = None
    /\ clients # EmptyDict
    /\ now = MaxTime

\* C34 as claimed: after any sequence of register, update_heartbeat, remove
\* and prune calls the server slot is empty, or names an identity that the
\* registry holds with a server type, which alone is reported is_server and
\* is the target of a forward.
C34_SlotNamesAServer ==
    /\ server_id # None =>
          /\ server_id \in DOMAIN clients
          /\ clients[server_id].client_type \in {HYDRA_SERVER, SIMPLE_SERVER}
    /\ \A id \in DOMAIN clients :
          get_registry_data(Registry(clients, server_id))[id].is_server =>
              clients[id].client_type \in {HYDRA_SERVER, SIMPLE_SERVER}

\* ------------------------------------------------------------------------
\* The receive loop and the prune loop side by side
\* ------------------------------------------------------------------------
\* the send is the request itself, addressed to the server slot
IsForward(e) == e.to = server_id /\ e.msg = inbound.message
\* the send is the no_server_connected error, addressed to the sender
IsNoServerError(e) ==
    /\ e.to = inbound.identity
    /\ e.msg.elem = ERROR
    /\ e.msg.data.error = NO_SERVER_CONNECTED

\* C35: the iteration that handles a client envelope other than a heartbeat
\* and a registry request makes exactly one send, whatever the prune loop
\* has done before it or is due to do: the request to the identity in the
\* server slot at that moment, or, with the slot empty, the
\* no_server_connected error to the sender.  The prune loop runs no
\* iteration of its own inside it.
C35_DispatchIsAtomic ==
    [][/\ (IterationStep /\ ClientRequest') =>
            /\ BagCardinality(sent') = 1
            /\ \A e \in BagToSet(sent') :
                  IF server_id' # None THEN IsForward(e)' ELSE IsNoServerError(e)'
            /\ pruning = Nothing /\ pruning' = Nothing
       /\ pruning' # pruning => ~IterationStep]_vars

\* A request has been forwarded to a server whose entry had timed out and
\* which the prune loop was about to remove
C35_Witness ==
    /\ ClientRequest
    /\ server_id # None
    /\ server_id \in Inactive(Registry(clients, server_id), ClientTimeout, now)
    /\ SendsTo(server_id) = 1
    /\ inbound.identity # server_id

\* ------------------------------------------------------------------------
\* The server slot after the server has gone
\* ------------------------------------------------------------------------
\* identities the registry holds with a server type outside the server slot
Displaced == {id \in DOMAIN clients : id # server_id /\ clients[id].client_type \in ServerRoles}

\* C36: while the server slot is empty and the registry still holds an
\* identity with a server type, nothing that identity sends (a heartbeat or
\* any other envelope) and no prune or remove call fills the slot; a client
\* request handled in that state gets the no_server_connected error; and
\* the slot is filled only by the envelope of an identity the registry does
\* not hold, which declares a server type.
C36_DisplacedIsNotPromoted ==
    [][(server_id = None /\ Displaced # {}) =>
          /\ server_id' # None =>
                /\ IterationStep
                /\ server_id' = inbound'.identity
                /\ server_id' \notin DOMAIN clients
                /\ inbound'.message.sender \in ServerRoles
          /\ (IterationStep /\ inbound'.identity \in Displaced) =>
                server_id' = None /\ inbound'.identity \in Displaced'
          /\ (IterationStep /\ ClientRequest' /\ server_id' = None) =>
                /\ BagCardinality(sent') = 1
                /\ \A e \in BagToSet(sent') : IsNoServerError(e)']_vars

\* The server in the slot has gone; the displaced server has sent a heartbeat
\* since, and the slot is still empty
C36_Witness ==
    /\ server_id = None
    /\ Iteration
    /\ inbound.identity \in Displaced
    /\ inbound.message.elem = HEARTBEAT
    /\ inbound.message.sender = HYDRA_SERVER
    /\ clients[inbound.identity].client_type = HYDRA_SERVER
    /\ clients[inbound.identity].last_heartbeat = now
    /\ now > 0

\* C37 as claimed: an identity that the registry does not hold (it was
\* pruned or removed; the registry keeps no trace of it) and that sends a
\* validated envelope declaring a server type, a heartbeat included, is
\* registered by that iteration and is the server slot after it, whichever
\* identity was in the slot before.
C37_ReturningServerTakesSlot ==
    [][(/\ IterationStep
        /\ inbound'.identity \notin DOMAIN clients
        /\ inbound'.message.sender \in ServerRoles) =>
          /\ inbound'.identity \in DOMAIN clients'
          /\ clients'[inbound'.identity].client_type = inbound'.message.sender
          /\ server_id' = inbound'.identity]_vars

\* ------------------------------------------------------------------------
\* Replies of the server, broadcast to every client
\* ------------------------------------------------------------------------
\* the envelope the receive loop of p takes next is a reply of the server
\* that carries request_id r
ReplyAt(p, r) ==
    /\ ReceiveStep(p)
    /\ Head(wire_out[p]).sender \in ServerRoles
    /\ Get(Head(wire_out[p]), "request_id") = r

\* C38: a step of a client's receive loop on a reply of the server with
\* request_id r completes the future of r and takes r out of
\* pending_requests exactly if pending_requests holds r, and then calls no
\* handler; at a client whose pending_requests does not hold r it leaves
\* pending_requests and every send_command call as they are, and the reply
\* goes to the handler registered for its message type, or nowhere if there
\* is none.
C38_ReplyCompletesOnlyItsOwner ==
    [][\A p \in IDs : \A r \in CommandIds :
          ReplyAt(p, r) =>
             IF r \in peer[p].pending_requests
             THEN /\ peer'[p].pending_requests = peer[p].pending_requests \ {r}
                  /\ peer'[p].commands[r].state = "result"
                  /\ peer'[p].handled = peer[p].handled
             ELSE /\ peer'[p].pending_requests = peer[p].pending_requests
                  /\ peer'[p].commands = peer[p].commands
                  /\ \A h \in peer'[p].handled \ peer[p].handled :
                        /\ h.message_type = Head(wire_out[p]).elem
                        /\ h.request_id = Some(r)
                  /\ (p # ServerPeer /\ Head(wire_out[p]).elem = SQUARE_RESPONSE) =>
                        \E h \in peer'[p].handled : h.request_id = Some(r)]_vars

\* The reply for r1 has completed the call of the first client and has gone
\* to the handler of the second, while the first still waits for r2
C38_Witness ==
    /\ "r1" \in DOMAIN peer[ClientPeer].commands
    /\ peer[ClientPeer].commands["r1"].state = "result"
    /\ peer[ClientPeer].pending_requests = {"r2"}
    /\ peer[ClientPeer].handled = {}
    /\ \E h \in peer[OtherClient].handled : h.request_id = Some("r1")
    /\ peer[OtherClient].pending_requests = {}

\* ------------------------------------------------------------------------
\* The tasks of a started router
\* ------------------------------------------------------------------------
\* C39 as claimed: while start has returned without raising and shutdown has
\* not been called since, the receive task and the prune task have not
\* ended, also on a router that was shut down before that start.
C39_TasksRunWhileStarted ==
    router.running =>
        /\ router.request_handler_task = "running"
        /\ router.client_pruner_task = "running"

\* ------------------------------------------------------------------------
\* max_clients
\* ------------------------------------------------------------------------
\* the registry holds max_clients entries or more
Full == Cardinality(DOMAIN clients) >= max_clients

====
